---- MODULE Spec2Model ----
(***************************************************************************)
(* A model of llama.cpp's inference core (src/llama.cpp): the session API  *)
(* (init, eval, sample, KV-cache and state save/restore), the tokenizer    *)
(* the model-file loader and the quantizer.  The specifications share the  *)
(* variables:                                                              *)
(*   Spec        the session API,                                          *)
(*   SpecState   the session API restricted to eval and state save/restore,*)
(*   SpecSample  the sampler on sessions holding arbitrary logits,         *)
(*   SpecTok     one tokenize call, merge loop step by step,               *)
(*   SpecLoad    the file loader's header parsing,                         *)
(*   SpecQuant   llama_model_quantize, tensor by tensor, and a re-read,    *)
(*   SpecMul     the checked size arithmetic,                              *)
(*   SpecShard   one tensor's shards: calc_all and load_data_for,          *)
(*   SpecModel   llama_init_from_file on whole model files,                *)
(*   SpecScratch the graph of one eval and its scratch buffers,            *)
(*   SpecEvalAny eval calls with any n_past and n_tokens,                  *)
(*   SpecCache   the KV-cache views and the graph order of a few evals,    *)
(*   SpecTokFair one tokenize call that keeps running (weak fairness).     *)
(* uint32_t and size_t are modelled at a reduced width (UInt32Max,         *)
(* SizeMax).                                                               *)
(* Floating point values are modelled by small integers; the tensor        *)
(* library's numerics are replaced by a deterministic function of the      *)
(* cache positions a graph reads.                                          *)
(***************************************************************************)
EXTENDS Integers, Sequences, FiniteSets, TLC

VARIABLES
    ctx,        \* the two llama_context objects: "s" (driven) and "t" (restore target)
    blob,       \* the caller's buffer that copy_state_data filled last
    ret,        \* the most recent API call and what it returned
    aborted,    \* "none", or the LLAMA_ASSERT that terminated the process
    hist,       \* history of the calls made on "s" (not program state)
    tk,         \* the tokenizer call: text, vocabulary, symbols_, work_queue_, output
    ld,         \* the file loader: file bytes, read position, file_version
    ml,         \* a model-file run: the tensors read, the file a saver writes, the result
    ev          \* the eval whose graph is being built: the scratch buffer in use, the
                \* intermediates allocated so far and where; the nodes computed and
                \* the cache elements they stored and loaded

vars == <<ctx, blob, ret, aborted, hist, tk, ld, ml, ev>>

(***************************************************************************)
(* Bounds of the model.                                                    *)
(***************************************************************************)
MaxNCtx == 2        \* largest params.n_ctx
NVocab == 2         \* hparams.n_vocab of the session's model
NHead == 2          \* hparams.n_head
HeadDim == 1        \* hparams.n_embd / hparams.n_head
NLayer == 1         \* hparams.n_layer

(***************************************************************************)
(* Program constants.                                                      *)
(***************************************************************************)
SizeT == 8          \* sizeof(size_t)
SizeFloat == 4      \* sizeof(float)
SizeInt == 4        \* sizeof(int)
MB == 1024 * 1024
S_Rng == 64 * 1024  \* the fixed RNG region of the state blob

NEmbd == NHead * HeadDim   \* hparams.n_embd (n_embd % n_head = 0)

Sessions == {"s", "t"}
TokenIds == 0 .. NVocab - 1

Min(a, b) == IF a < b THEN a ELSE b
Max(a, b) == IF a > b THEN a ELSE b

RECURSIVE SumSeq(_)
SumSeq(q) == IF q = <<>> THEN 0 ELSE Head(q) + SumSeq(Tail(q))

(***************************************************************************)
(* std::mt19937 and its text form.  The generator is a small cyclic state; *)
(* operator<< writes the state as decimal text and operator>> parses it.   *)
(***************************************************************************)
RngSeed(seed) == (seed * 7) % 21
RngNext(r) == (r + 7) % 21

\* characters are their codes: '0' is 48, the NUL of the zeroed buffer is 0
IsDigit(ch) == ch >= 48 /\ ch <= 57

RECURSIVE Digits(_)
Digits(n) == IF n < 10 THEN <<48 + n>> ELSE Append(Digits(n \div 10), 48 + (n % 10))

\* the leading run of digit characters of q
RECURSIVE DigitRun(_)
DigitRun(q) ==
    IF q = <<>> \/ ~IsDigit(Head(q)) THEN <<>> ELSE <<Head(q)>> \o DigitRun(Tail(q))

RECURSIVE ParseDigits(_)
ParseDigits(q) ==
    IF q = <<>> THEN 0 ELSE ParseDigits(SubSeq(q, 1, Len(q) - 1)) * 10 + (q[Len(q)] - 48)

\* rng_ss << ctx->rng
RngToText(r) == Digits(r)
\* rng_ss >> ctx->rng: the state read, and rng_ss.fail()
RngFromText(q) == ParseDigits(DigitRun(q)) % 21
RngParseFails(q) == DigitRun(q) = <<>>

(***************************************************************************)
(* llama_context_params, restricted to the fields the session API reads.   *)
(***************************************************************************)
ParamSet ==
    { [n_ctx |-> c, logits_all |-> la, embedding |-> em, vocab_only |-> FALSE, f16_kv |-> TRUE] :
        c \in {MaxNCtx}, la \in BOOLEAN, em \in BOOLEAN }
    \cup { [n_ctx |-> MaxNCtx, logits_all |-> FALSE, embedding |-> FALSE,
            vocab_only |-> TRUE, f16_kv |-> TRUE],
           [n_ctx |-> MaxNCtx - 1, logits_all |-> FALSE, embedding |-> FALSE,
            vocab_only |-> FALSE, f16_kv |-> TRUE] }

\* ggml_type_size of the cache dtype
TypeSize(p) == IF p.f16_kv THEN 2 ELSE 4

\* kv_cache_init: n_elements of each of k and v
KvElements(p) == NEmbd * (NLayer * p.n_ctx)

\* kv_cache_init: cache.buf.size (0 when the cache was never allocated)
KvBufSize(p) == IF p.vocab_only THEN 0 ELSE 2 * KvElements(p) * TypeSize(p) + 2 * MB

\* the value new uint8_t[] leaves in a cache element nobody wrote
Junk == 0

\* what `int n;` of llama_kv_cache holds after `new llama_context`: indeterminate
KvNUninit == {-1, 0}

\* llama_init_from_file: the session it returns
InitFrom(p, seed, n0) ==
    [ params    |-> p,
      rng       |-> RngSeed(seed),
      logits    |-> <<>>,
      logits_cap |-> IF p.vocab_only THEN 0
                     ELSE IF p.logits_all THEN p.n_ctx * NVocab ELSE NVocab,
      embedding |-> IF ~p.vocab_only /\ p.embedding THEN [e \in 1 .. NEmbd |-> 0] ELSE <<>>,
      kv_k      |-> IF p.vocab_only THEN <<>> ELSE [i \in 1 .. KvElements(p) |-> Junk],
      kv_v      |-> IF p.vocab_only THEN <<>> ELSE [i \in 1 .. KvElements(p) |-> Junk],
      kv_size   |-> KvBufSize(p),
      kv_n      |-> n0,
      has_evaluated_once |-> FALSE ]

(***************************************************************************)
(* llama_eval_internal: the cache views and what the graph stores and      *)
(* reads through them.  Offsets are element offsets into kv_self.k and     *)
(* kv_self.v (0-based, as in the source); the model's arrays are 1-based.  *)
(***************************************************************************)
\* component e of the RoPE-ed key / of the value that layer il computes for token
\* tok at position pos: a number that names (il, pos, e, tok), odd for keys and
\* even for values
CellOf(il, pos, e, tok) == tok + NVocab * (e + NEmbd * (pos + MaxNCtx * il))
KVal(il, pos, e, tok) == 2 * CellOf(il, pos, e, tok) + 1
VVal(il, pos, e, tok) == 2 * CellOf(il, pos, e, tok) + 2

\* ggml_view_1d(kv_self.k, N*n_embd, es*n_embd*(il*n_ctx + n_past)): element idx
KWriteOff(n_ctx, il, n_past, idx) == NEmbd * (il * n_ctx + n_past) + idx

\* ggml_view_2d(kv_self.v, N, n_embd, n_ctx*es, (il*n_ctx)*es*n_embd + n_past*es):
\* element (j, e)
VWriteOff(n_ctx, il, n_past, j, e) == (il * n_ctx) * NEmbd + n_past + j + e * n_ctx

\* ggml_view_1d(kv_self.k, (n_past + N)*n_embd, il*n_ctx*es*n_embd) reshaped to
\* [head_dim, n_head, n_past + N]: element (d, h, t)
KReadOff(n_ctx, il, t, h, d) == il * n_ctx * NEmbd + t * NEmbd + h * HeadDim + d

\* ggml_view_3d(kv_self.v, n_past + N, head_dim, n_head, n_ctx*es,
\*              n_ctx*es*n_embd/n_head, il*n_ctx*es*n_embd): element (t, d, h)
VReadOff(n_ctx, il, t, h, d) ==
    il * n_ctx * NEmbd + t + d * n_ctx + h * ((n_ctx * NEmbd) \div NHead)

\* kv_self.k after the first n elements of the views k of all layers were copied:
\* element idx of layer il's view is the key of token idx / n_embd, component
\* idx % n_embd
RECURSIVE CpyK(_, _, _, _, _)
CpyK(k, n_ctx, tokens, n_past, n) ==
    LET N == Len(tokens)
        il == n \div (N * NEmbd)
        idx == n % (N * NEmbd)
    IN  IF n = NLayer * N * NEmbd THEN k
        ELSE CpyK([ k EXCEPT ![KWriteOff(n_ctx, il, n_past, idx) + 1] =
                        KVal(il, n_past + (idx \div NEmbd), idx % NEmbd,
                             tokens[(idx \div NEmbd) + 1]) ],
                  n_ctx, tokens, n_past, n + 1)

\* kv_self.k after ggml_cpy(Kcur, k) of every layer
EvalK(c, tokens, n_past) == CpyK(c.kv_k, c.params.n_ctx, tokens, n_past, 0)

\* kv_self.v after the first n elements of the views v of all layers were copied:
\* column j, row e of layer il's view is component e of the value of token j
RECURSIVE CpyV(_, _, _, _, _)
CpyV(v, n_ctx, tokens, n_past, n) ==
    LET N == Len(tokens)
        il == n \div (N * NEmbd)
        j == (n % (N * NEmbd)) \div NEmbd
        e == n % NEmbd
    IN  IF n = NLayer * N * NEmbd THEN v
        ELSE CpyV([ v EXCEPT ![VWriteOff(n_ctx, il, n_past, j, e) + 1] =
                        VVal(il, n_past + j, e, tokens[j + 1]) ],
                  n_ctx, tokens, n_past, n + 1)

\* kv_self.v after ggml_cpy(Vcur, v) of every layer
EvalV(c, tokens, n_past) == CpyV(c.kv_v, c.params.n_ctx, tokens, n_past, 0)

\* whether a cache element holds a key/value computed for token id
HoldsTok(x, id) == x # Junk /\ ((x - 1) \div 2) % NVocab = id

\* The logit of id for the query at position q: the graph's result, which is a
\* function of the cache positions 0 .. q that the last layer's K and V views read
\* (diag_mask_inf hides the positions after q).  Values lie in -2 .. 2.
Logit(k, v, n_ctx, q, id) ==
    LET il == NLayer - 1
        hitsK == Cardinality({ t \in 0 .. q : HoldsTok(k[KReadOff(n_ctx, il, t, 0, 0) + 1], id) })
        hitsV == Cardinality({ t \in 0 .. q : HoldsTok(v[VReadOff(n_ctx, il, t, 0, 0) + 1], id) })
    IN  ((hitsK + hitsV + id) % 5) - 2

\* ggml_get_data(inpL): n_vocab * N floats, row j for the token at n_past + j
GraphLogits(k, v, n_ctx, N, n_past) ==
    [ x \in 1 .. NVocab * N |->
        Logit(k, v, n_ctx, n_past + ((x - 1) \div NVocab), (x - 1) % NVocab) ]

\* ggml_get_data(embeddings): the post-norm hidden state, n_embd * N floats
GraphEmbeddings(tokens) ==
    [ x \in 1 .. NEmbd * Len(tokens) |->
        tokens[((x - 1) \div NEmbd) + 1] * NEmbd + ((x - 1) % NEmbd) ]

\* "extract logits": the session's logits vector after the eval
ExtractLogits(c, all, N) ==
    IF c.params.logits_all
    THEN all
    ELSE SubSeq(all, NVocab * (N - 1) + 1, NVocab * N)

\* "extract embeddings"
ExtractEmbedding(c, emb, N) ==
    IF Len(c.embedding) > 0
    THEN SubSeq(emb, NEmbd * (N - 1) + 1, NEmbd * N)
    ELSE c.embedding

\* the session after llama_eval(ctx, tokens, N, n_past, n_threads) returned 0
EvalResult(c, tokens, n_past) ==
    LET N == Len(tokens)
        k == EvalK(c, tokens, n_past)
        v == EvalV(c, tokens, n_past)
        all == GraphLogits(k, v, c.params.n_ctx, N, n_past)
    IN  [ c EXCEPT !.kv_k = k,
                   !.kv_v = v,
                   !.logits = ExtractLogits(c, all, N),
                   !.embedding = ExtractEmbedding(c, GraphEmbeddings(tokens), N),
                   !.has_evaluated_once = TRUE ]

\* the token batches a caller passes
RECURSIVE TokenSeqs(_)
TokenSeqs(n) ==
    IF n = 0 THEN {<<>>}
    ELSE LET S == TokenSeqs(n - 1)
         IN  S \cup { Append(q, x) : q \in { y \in S : Len(y) = n - 1 }, x \in TokenIds }

(***************************************************************************)
(* llama_sample_top_p_top_k.  Scaled logits are kept in quarter units      *)
(* (exact for temp and repeat_penalty in {1, 2}); top_p is given in        *)
(* quarters as well.  expf is replaced by a strictly increasing positive   *)
(* function, and std::discrete_distribution by a draw that is a function   *)
(* of the generator state and the weights.                                 *)
(***************************************************************************)
\* faulty variant: plogits = logits.data()
PLogitsFirst(c) == SubSeq(c.logits, 1, NVocab)

\* plogits = logits.data() + logits.size() - n_logits
PLogits(c) == SubSeq(c.logits, Len(c.logits) - NVocab + 1, Len(c.logits))

\* the temp <= 0 loop from index i on: the id it ends with
RECURSIVE ArgMaxLoop(_, _, _)
ArgMaxLoop(pl, i, max_id) ==
    IF i >= NVocab THEN max_id
    ELSE IF pl[i + 1] > pl[max_id + 1] THEN ArgMaxLoop(pl, i + 1, i)
         ELSE ArgMaxLoop(pl, i + 1, max_id)

\* faulty variant: the comparison is >=, so the last of several equal maxima wins
SampleGreedyLastMax(pl) ==
    CHOOSE i \in TokenIds : /\ \A j \in TokenIds : pl[j + 1] <= pl[i + 1]
                            /\ \A j \in TokenIds : pl[j + 1] = pl[i + 1] => j <= i

\* the temp <= 0 branch: "select the token with the highest logit directly"
SampleGreedy(pl) == ArgMaxLoop(pl, 1, 0)

\* faulty variant: a repeated id's logit is divided whatever its sign
ScaledLogitDivided(pl, i, last_n_tokens, temp, repeat_penalty) ==
    LET x == (4 * pl[i + 1]) \div temp
    IN  IF i \in last_n_tokens THEN x \div repeat_penalty ELSE x

\* logits_id[i].first, in quarter units
ScaledLogit(pl, i, last_n_tokens, temp, repeat_penalty) ==
    LET x == (4 * pl[i + 1]) \div temp
    IN  IF i \in last_n_tokens
        THEN IF pl[i + 1] < 0 THEN x * repeat_penalty ELSE x \div repeat_penalty
        ELSE x

RECURSIVE Perms(_)
Perms(S) ==
    IF S = {} THEN {<<>>}
    ELSE UNION { { <<x>> \o q : q \in Perms(S \ {x}) } : x \in S }

\* the orders std::partial_sort may leave the first n ids in: descending by
\* scaled logit, ids of equal scaled logit in any order
SortedOrders(X, n) ==
    { SubSeq(q, 1, n) : q \in { r \in Perms(TokenIds) :
                                  \A a \in 1 .. NVocab - 1 : X[r[a]] >= X[r[a + 1]] } }

\* faulty variant: top_k is not applied
TopKSizeAll(top_k) == NVocab

\* sample_top_k's size argument
TopKSize(top_k) == IF top_k > 0 THEN Min(top_k, NVocab) ELSE NVocab

\* expf(d) for d <= 0 given in quarter units
ExpW(d) == 2 ^ (Max(d, -24) + 24)

RECURSIVE PrefixSum(_, _)
PrefixSum(w, n) == IF n = 0 THEN 0 ELSE PrefixSum(w, n - 1) + w[n]

\* the top_p loop: the size probs and logits_id are resized to
TopPSize(w, top_p4) ==
    LET total == PrefixSum(w, Len(w))
        hit == { i \in 1 .. Len(w) : 4 * PrefixSum(w, i) >= top_p4 * total }
    IN  IF top_p4 < 4 /\ hit # {}
        THEN CHOOSE i \in hit : \A j \in hit : i <= j
        ELSE Len(w)

\* dist(rng): the index drawn from the weights w by generator state r
Draw(w, r) ==
    LET total == PrefixSum(w, Len(w))
        u == (r * total) \div 21
    IN  CHOOSE i \in 1 .. Len(w) : PrefixSum(w, i) > u /\ PrefixSum(w, i - 1) <= u

\* the candidates left after top-k and top-p for one order of the sort
Candidates(X, ord, top_p4) ==
    LET w == [ i \in 1 .. Len(ord) |-> ExpW(X[ord[i]] - X[ord[1]]) ]
    IN  SubSeq(ord, 1, TopPSize(w, top_p4))

\* the temp > 0 path for one order of the sort: <<returned id, generator after>>
SampleDraw(X, ord, top_p4, r) ==
    LET kept == Candidates(X, ord, top_p4)
        w == [ i \in 1 .. Len(kept) |-> ExpW(X[kept[i]] - X[kept[1]]) ]
    IN  <<kept[Draw(w, r)], RngNext(r)>>

\* everything one call may return, with the generator state it leaves
SampleOutcomes(c, last_n_tokens, top_k, top_p4, temp, repeat_penalty) ==
    LET pl == PLogits(c)
    IN  IF temp <= 0
        THEN { <<SampleGreedy(pl), c.rng>> }
        ELSE LET X == [ i \in TokenIds |->
                          ScaledLogit(pl, i, last_n_tokens, temp, repeat_penalty) ]
             IN  { SampleDraw(X, ord, top_p4, c.rng) :
                     ord \in SortedOrders(X, TopKSize(top_k)) }

(***************************************************************************)
(* Session state blob: llama_get_state_size, llama_copy_state_data and     *)
(* llama_set_state_data.  The caller's buffer is a map from the byte       *)
(* offset a field was stored at to the field; a read at an offset nothing  *)
(* was stored at finds whatever the buffer held (0 here).                  *)
(***************************************************************************)
GetStateSize(c) ==
    LET s_rng_size == SizeT
        s_rng == S_Rng
        s_logits_capacity == SizeT
        s_logits_size == SizeT
        s_logits == c.logits_cap * SizeFloat
        s_embedding_size == SizeT
        s_embedding == Len(c.embedding) * SizeFloat
        s_kv_size == SizeT
        s_kv_ntok == SizeInt
        s_kv == c.kv_size
    IN  s_rng_size + s_rng + s_logits_capacity + s_logits_size + s_logits
        + s_embedding_size + s_embedding + s_kv_size + s_kv_ntok + s_kv

EmptyMem == [ o \in {} |-> 0 ]
Store(mem, off, val) == (off :> val) @@ mem
IntAt(mem, off) ==
    IF off \in DOMAIN mem /\ mem[off].t = "int" THEN mem[off].v ELSE 0
FloatsAt(mem, off, n) ==
    LET have == IF off \in DOMAIN mem /\ mem[off].t = "floats" THEN mem[off].v ELSE <<>>
    IN  [ i \in 1 .. n |-> IF i <= Len(have) THEN have[i] ELSE 0 ]
\* std::string(&rng_buf[0], rng_size)
CharsAt(mem, off, n) ==
    LET have == IF off \in DOMAIN mem /\ mem[off].t = "chars" THEN mem[off].v ELSE <<>>
    IN  [ i \in 1 .. n |-> IF i <= Len(have) THEN have[i] ELSE 0 ]
KvAt(mem, off, c) ==
    IF off \in DOMAIN mem /\ mem[off].t = "kv"
    THEN mem[off]
    ELSE [t |-> "kv", k |-> [i \in 1 .. Len(c.kv_k) |-> Junk],
                      v |-> [i \in 1 .. Len(c.kv_v) |-> Junk]]

\* faulty variant: out advances by the logits stored, not by the capacity reserved
CopyLogitsAdvanceBySize(c) == Len(c.logits) * SizeFloat

\* the bytes `out` advances by after the logits capacity and size were stored
CopyLogitsAdvance(c) == c.logits_cap * SizeFloat

\* llama_copy_state_data: the buffer it fills and out - dest
CopyStateData(c) ==
    LET txt == RngToText(c.rng)
        o_rng_size == 0
        o_rng_buf == o_rng_size + SizeT
        o_logits_capacity == o_rng_buf + S_Rng
        o_logits_size == o_logits_capacity + SizeT
        o_logits == o_logits_size + SizeT
        o_embedding_size == o_logits + CopyLogitsAdvance(c)
        o_embedding == o_embedding_size + SizeT
        o_kv_size == o_embedding
                     + (IF Len(c.embedding) # 0 THEN Len(c.embedding) * SizeFloat ELSE 0)
        o_kv_ntok == o_kv_size + SizeT
        o_kv == o_kv_ntok + SizeInt
        o_end == o_kv + (IF c.kv_size # 0 THEN c.kv_size ELSE 0)
        m1 == Store(EmptyMem, o_rng_size, [t |-> "int", v |-> Len(txt)])
        m2 == Store(m1, o_rng_buf, [t |-> "chars", v |-> txt])
        m3 == Store(m2, o_logits_capacity, [t |-> "int", v |-> c.logits_cap])
        m4 == Store(m3, o_logits_size, [t |-> "int", v |-> Len(c.logits)])
        m5 == IF Len(c.logits) # 0
              THEN Store(m4, o_logits, [t |-> "floats", v |-> c.logits]) ELSE m4
        m6 == Store(m5, o_embedding_size, [t |-> "int", v |-> Len(c.embedding)])
        m7 == IF Len(c.embedding) # 0
              THEN Store(m6, o_embedding, [t |-> "floats", v |-> c.embedding]) ELSE m6
        m8 == Store(m7, o_kv_size, [t |-> "int", v |-> c.kv_size])
        m9 == Store(m8, o_kv_ntok, [t |-> "int", v |-> c.kv_n])
        m10 == IF c.kv_size # 0
               THEN Store(m9, o_kv, [t |-> "kv", k |-> c.kv_k, v |-> c.kv_v]) ELSE m9
    IN  [ mem |-> m10, written |-> o_end ]

\* the generator state set_state_data leaves: parsed from the first rng_size
\* characters of the RNG region
RestoreRng(mem, o_rng_size, o_rng_buf) ==
    RngFromText(CharsAt(mem, o_rng_buf, IntAt(mem, o_rng_size)))

\* faulty variant: the token count of the blob is not taken over
KeptKvN(c, kv_ntok) == c.kv_n

\* ctx->model.kv_self.n = kv_ntok
RestoredKvN(c, kv_ntok) == kv_ntok

\* llama_set_state_data on session c reading the buffer mem: the session it leaves,
\* the assertion that failed ("none" if none did) and in - src
SetStateData(c, mem) ==
    LET o_rng_size == 0
        o_rng_buf == o_rng_size + SizeT
        o_logits_capacity == o_rng_buf + S_Rng
        o_logits_size == o_logits_capacity + SizeT
        o_logits == o_logits_size + SizeT
        rng_size == IntAt(mem, o_rng_size)
        logits_capacity == IntAt(mem, o_logits_capacity)
        logits_size == IntAt(mem, o_logits_size)
        o_embedding_size == o_logits + logits_capacity * SizeFloat
        o_embedding == o_embedding_size + SizeT
        embedding_size == IntAt(mem, o_embedding_size)
        o_kv_size == o_embedding + (IF embedding_size # 0 THEN embedding_size * SizeFloat ELSE 0)
        o_kv_ntok == o_kv_size + SizeT
        o_kv == o_kv_ntok + SizeInt
        kv_size == IntAt(mem, o_kv_size)
        kv_ntok == IntAt(mem, o_kv_ntok)
        o_end == o_kv + (IF kv_size # 0 THEN kv_size ELSE 0)
        kv == KvAt(mem, o_kv, c)
        c1 == [ c EXCEPT !.rng = RestoreRng(mem, o_rng_size, o_rng_buf) ]
        c2 == IF logits_size # 0
              THEN [ c1 EXCEPT !.logits = FloatsAt(mem, o_logits, logits_size),
                               !.logits_cap = Max(c.logits_cap, logits_size) ]
              ELSE c1
        c3 == IF embedding_size # 0
              THEN [ c2 EXCEPT !.embedding = FloatsAt(mem, o_embedding, embedding_size) ]
              ELSE c2
        c4 == IF kv_size # 0 THEN [ c3 EXCEPT !.kv_k = kv.k, !.kv_v = kv.v ] ELSE c3
        c5 == [ c4 EXCEPT !.kv_n = RestoredKvN(c, kv_ntok) ]
    IN  IF RngParseFails(CharsAt(mem, o_rng_buf, rng_size))
        THEN [ c |-> c, abort |-> "rng_ss.fail() == false", nread |-> 0 ]
        ELSE IF c.logits_cap # logits_capacity
        THEN [ c |-> c1, abort |-> "logits.capacity() == logits_capacity", nread |-> 0 ]
        ELSE IF Len(c.embedding) # embedding_size
        THEN [ c |-> c2, abort |-> "embedding.capacity() == embedding_size", nread |-> 0 ]
        ELSE IF kv_size # 0 /\ c.kv_size # kv_size
        THEN [ c |-> c3, abort |-> "kv_self.buf.size == kv_size", nread |-> 0 ]
        ELSE IF o_end # GetStateSize(c5)
        THEN [ c |-> c5, abort |-> "nread == expected", nread |-> o_end ]
        ELSE [ c |-> c5, abort |-> "none", nread |-> o_end ]

\* llama_set_kv_cache(ctx, llama_get_kv_cache(from), n_size, n_token_count)
SetKvCache(c, from, n_token_count) ==
    [ c EXCEPT !.kv_k = from.kv_k, !.kv_v = from.kv_v, !.kv_n = n_token_count ]

(***************************************************************************)
(* The session API as a state machine.  A run makes its calls on session   *)
(* "s" (eval, sample, set_kv_cache in any order), then saves the state     *)
(* with copy_state_data, creates a second session "t" and restores the     *)
(* saved state with set_state_data.                                        *)
(***************************************************************************)
NoBlob == [ mem |-> EmptyMem, written |-> 0 ]
NoSession == [ params |-> [vocab_only |-> TRUE], kv_size |-> -1 ]
TkIdle == [ pc |-> "idle" ]
LdIdle == [ pc |-> "idle" ]
MlIdle == [ pc |-> "idle" ]
EvIdle == [ pc |-> "idle" ]

\* the most recent call: its name, the session, the value returned and, for
\* sample, whether temp <= 0 and the generator state before the call
Ret(op, who, val, greedy, rng0) ==
    [ op |-> op, who |-> who, val |-> val, greedy |-> greedy, rng0 |-> rng0 ]

\* the arguments callers pass
KvCounts == {0, MaxNCtx + 1}
LastNs == {{}, {0}}
TopKs == {0, 1}
TopPs == {2, 4}
Temps == {-1, 0, 2}
Penalties == {1, 2}

InitSession ==
    /\ \E ps \in ParamSet, ns \in KvNUninit :
          ctx = [ c \in Sessions |-> IF c = "s" THEN InitFrom(ps, 1, ns) ELSE NoSession ]
    /\ blob = NoBlob
    /\ ret = Ret("init", "s", 0, FALSE, 0)
    /\ aborted = "none"
    /\ hist = [ phase |-> "run", evald |-> 0, disciplined |-> TRUE, t_restored |-> FALSE ]

\* llama_eval(s, tokens, N, n_past, n_threads) with n_past + N <= n_ctx
Eval ==
    /\ aborted = "none"
    /\ hist.phase = "run"
    /\ \E n_past \in 0 .. MaxNCtx - 1 :
       \E tokens \in TokenSeqs(ctx["s"].params.n_ctx - n_past) \ {<<>>} :
          IF ctx["s"].params.vocab_only
          THEN /\ aborted' = "!!kv_self.ctx"
               /\ ret' = Ret("eval", "s", 1, FALSE, 0)
               /\ UNCHANGED <<ctx, hist>>
          ELSE LET ok == hist.disciplined /\ n_past = hist.evald
               IN  /\ ctx' = [ ctx EXCEPT !["s"] = EvalResult(ctx["s"], tokens, n_past) ]
                   /\ ret' = Ret("eval", "s", 0, FALSE, 0)
                   /\ hist' = [ hist EXCEPT !.disciplined = ok,
                                            !.evald = IF ok THEN hist.evald + Len(tokens)
                                                            ELSE 0 ]
                   /\ UNCHANGED aborted
    /\ UNCHANGED <<blob, tk, ld, ml, ev>>

\* llama_sample_top_p_top_k(s, last_n_tokens, top_k, top_p, temp, repeat_penalty),
\* called once the session holds logits
Sample ==
    /\ aborted = "none"
    /\ hist.phase = "run"
    /\ Len(ctx["s"].logits) >= NVocab
    /\ \E last_n_tokens \in LastNs, top_k \in TopKs, top_p4 \in TopPs,
          temp \in Temps, repeat_penalty \in Penalties :
       \E out \in SampleOutcomes(ctx["s"], last_n_tokens, top_k, top_p4, temp, repeat_penalty) :
          /\ ctx' = [ ctx EXCEPT !["s"].rng = out[2] ]
          /\ ret' = Ret("sample", "s", out[1], temp <= 0, ctx["s"].rng)
    /\ UNCHANGED <<blob, aborted, hist, tk, ld, ml, ev>>

\* the buffers a caller hands to set_kv_cache: the session's own cache, or the
\* untouched cache of another session created with parameters p
KvSources(c) ==
    { [kv_k |-> c.kv_k, kv_v |-> c.kv_v, kv_size |-> c.kv_size] }
    \cup { [kv_k |-> InitFrom(p, 1, 0).kv_k, kv_v |-> InitFrom(p, 1, 0).kv_v,
            kv_size |-> KvBufSize(p)] : p \in { q \in ParamSet : ~q.vocab_only } }

\* llama_set_kv_cache(s, kv_cache, n_size, n_token_count)
SetKvCacheCall ==
    /\ aborted = "none"
    /\ hist.phase = "run"
    /\ ~ctx["s"].params.vocab_only
    /\ \E from \in KvSources(ctx["s"]), n_token_count \in KvCounts :
          IF ctx["s"].kv_size # from.kv_size
          THEN /\ aborted' = "kv_self.buf.size == n_size"
               /\ UNCHANGED <<ctx, hist>>
          ELSE /\ ctx' = [ ctx EXCEPT !["s"] = SetKvCache(ctx["s"], from, n_token_count) ]
               /\ hist' = [ hist EXCEPT !.disciplined = FALSE, !.evald = 0 ]
               /\ UNCHANGED aborted
    /\ ret' = Ret("set_kv_cache", "s", 0, FALSE, 0)
    /\ UNCHANGED <<blob, tk, ld, ml, ev>>

\* llama_copy_state_data(s, dest)
CopyStateDataCall ==
    /\ aborted = "none"
    /\ hist.phase = "run"
    /\ LET b == CopyStateData(ctx["s"])
       IN  /\ blob' = b
           /\ ret' = Ret("copy", "s", b.written, FALSE, 0)
           /\ aborted' = IF b.written = GetStateSize(ctx["s"]) THEN "none"
                         ELSE "written == expected"
    /\ hist' = [ hist EXCEPT !.phase = "saved", !.evald = 0, !.disciplined = FALSE ]
    /\ UNCHANGED <<ctx, tk, ld, ml, ev>>

\* llama_init_from_file for the second session
InitT ==
    /\ aborted = "none"
    /\ hist.phase = "saved"
    /\ ctx["t"] = NoSession
    /\ \E pt \in ParamSet, nt \in KvNUninit :
          ctx' = [ ctx EXCEPT !["t"] = InitFrom(pt, 2, nt) ]
    /\ ret' = Ret("init", "t", 0, FALSE, 0)
    /\ UNCHANGED <<blob, aborted, hist, tk, ld, ml, ev>>

\* llama_set_state_data(c, src) with src the buffer copy_state_data filled
SetStateDataCall ==
    /\ aborted = "none"
    /\ hist.phase = "saved"
    /\ \E c \in { x \in Sessions : ctx[x] # NoSession } :
          LET r == SetStateData(ctx[c], blob.mem)
          IN  /\ ctx' = [ ctx EXCEPT ![c] = r.c ]
              /\ ret' = Ret("set", c, r.nread, FALSE, 0)
              /\ aborted' = r.abort
              /\ hist' = IF c = "s"
                         THEN [ hist EXCEPT !.disciplined = FALSE, !.evald = 0 ]
                         ELSE [ hist EXCEPT !.t_restored = r.abort = "none" ]
    /\ UNCHANGED <<blob, tk, ld, ml, ev>>

Init ==
    /\ InitSession
    /\ tk = TkIdle
    /\ ld = LdIdle
    /\ ml = MlIdle
    /\ ev = EvIdle

Next ==
    \/ Eval
    \/ Sample
    \/ SetKvCacheCall
    \/ CopyStateDataCall
    \/ InitT
    \/ SetStateDataCall

Spec == Init /\ [][Next]_vars

\* saving and restoring only: evals between init and llama_copy_state_data
NextState ==
    \/ Eval
    \/ CopyStateDataCall
    \/ InitT
    \/ SetStateDataCall

SpecState == Init /\ [][NextState]_vars

\* the blob's logits capacity, embedding size or KV-cache size is not that of
\* session c: the three comparisons llama_set_state_data makes
StateMismatch(c, mem) ==
    SetStateData(c, mem).abort \in { "logits.capacity() == logits_capacity",
                                     "embedding.capacity() == embedding_size",
                                     "kv_self.buf.size == kv_size" }

\* C28: when the blob's logits capacity, embedding size or KV-cache size
\* differs from the target session's, set_state_data fails (the call returns
\* to its caller) and the session's RNG, logits, embedding, KV-cache bytes
\* and kv.n are all the same as before the call.
C28_MismatchLeavesNoPartialState ==
    [][ \A c \in Sessions :
          ( /\ aborted = "none" /\ hist.phase = "saved"
            /\ ctx[c] # NoSession
            /\ ret'.op = "set" /\ ret'.who = c
            /\ StateMismatch(ctx[c], blob.mem) )
          => /\ aborted' = "none"
             /\ ctx'[c].rng = ctx[c].rng
             /\ ctx'[c].logits = ctx[c].logits
             /\ ctx'[c].embedding = ctx[c].embedding
             /\ ctx'[c].kv_k = ctx[c].kv_k /\ ctx'[c].kv_v = ctx[c].kv_v
             /\ ctx'[c].kv_n = ctx[c].kv_n
      ]_vars

\* the part of C28 about the session alone, whatever becomes of the call
C28_MismatchKeepsSession ==
    [][ \A c \in Sessions :
          ( /\ aborted = "none" /\ hist.phase = "saved"
            /\ ctx[c] # NoSession
            /\ ret'.op = "set" /\ ret'.who = c
            /\ StateMismatch(ctx[c], blob.mem) )
          => /\ ctx'[c].rng = ctx[c].rng
             /\ ctx'[c].logits = ctx[c].logits
             /\ ctx'[c].embedding = ctx[c].embedding
      ]_vars

\* the sampler alone, on a session whose evals left any logits: the values a
\* logit takes, and the sessions tried (the sampler reads logits, rng and n_vocab)
LogitVals == {-1, 0, 1}

InitSample ==
    /\ \E p \in { q \in ParamSet : ~q.vocab_only /\ q.n_ctx = MaxNCtx /\ ~q.embedding },
          seed \in 1 .. 3, n0 \in KvNUninit :
       \E lg \in [ 1 .. (IF p.logits_all THEN 2 * NVocab ELSE NVocab) -> LogitVals ] :
          ctx = [ c \in Sessions |->
                    IF c = "s"
                    THEN [ InitFrom(p, seed, n0) EXCEPT !.logits = lg,
                                                        !.has_evaluated_once = TRUE ]
                    ELSE NoSession ]
    /\ blob = NoBlob
    /\ ret = Ret("eval", "s", 0, FALSE, 0)
    /\ aborted = "none"
    /\ hist = [ phase |-> "run", evald |-> 0, disciplined |-> FALSE, t_restored |-> FALSE ]
    /\ tk = TkIdle
    /\ ld = LdIdle
    /\ ml = MlIdle
    /\ ev = EvIdle

NextSample == Sample

SpecSample == InitSample /\ [][NextSample]_vars

(***************************************************************************)
(* Claims about the session API, checked under Spec, SpecState, SpecSample. *)
(***************************************************************************)

\* C1: after successful eval calls, each made with n_past equal to the number of
\* tokens evaluated so far, the KV-cache token counter kv.n equals the sum of
\* the calls' token counts.
C1_KvNCountsEvaluatedTokens ==
    (hist.disciplined /\ ctx["s"].has_evaluated_once) => ctx["s"].kv_n = hist.evald

\* C2: in every state reachable through init, eval, set_kv_cache and
\* set_state_data the KV-cache token counter satisfies 0 <= kv.n <= n_ctx.
C2_KvNWithinContext ==
    \A c \in Sessions :
        ctx[c] # NoSession => (0 <= ctx[c].kv_n /\ ctx[c].kv_n <= ctx[c].params.n_ctx)

\* C3: copy_state_data writes exactly get_state_size bytes, and set_state_data
\* applied to that buffer on a session with the same parameters passes every
\* assertion and consumes exactly the number of bytes written; the
\* written == expected and nread == expected assertions never fail.
C3_StateSizeAgrees ==
    /\ aborted \notin {"written == expected", "nread == expected"}
    /\ ret.op = "copy" => (ret.val = GetStateSize(ctx["s"]) /\ blob.written = ret.val)
    /\ (ret.op = "set" /\ ctx[ret.who].params = ctx["s"].params) =>
          /\ aborted = "none"
          /\ ret.val = blob.written
          /\ ret.val = GetStateSize(ctx[ret.who])

\* C3's case: a session whose logits vector is shorter than its capacity and
\* which stores an embedding was saved, and a second session read the buffer.
C3_Witness ==
    /\ ret.op = "set" /\ ret.who = "t" /\ aborted = "none"
    /\ ret.val = blob.written
    /\ Len(ctx["s"].logits) > 0
    /\ Len(ctx["s"].logits) < ctx["s"].logits_cap
    /\ Len(ctx["s"].embedding) > 0

\* C4: after set_state_data(t, copy_state_data(s)) on a freshly initialised
\* session t with the parameters of s, t has the generator state, the logits,
\* the embedding, the cache contents and kv.n of s, and every eval or sample call
\* gives on t what it gives on s.
C4_RoundTrip ==
    (hist.t_restored /\ ctx["t"].params = ctx["s"].params) =>
        LET s == ctx["s"]
            t == ctx["t"]
        IN  /\ t.rng = s.rng
            /\ t.logits = s.logits
            /\ t.embedding = s.embedding
            /\ t.kv_k = s.kv_k /\ t.kv_v = s.kv_v
            /\ t.kv_n = s.kv_n
            /\ ~s.params.vocab_only =>
                 \A n_past \in 0 .. s.params.n_ctx - 1 :
                 \A tokens \in TokenSeqs(s.params.n_ctx - n_past) \ {<<>>} :
                    LET es == EvalResult(s, tokens, n_past)
                        et == EvalResult(t, tokens, n_past)
                    IN  /\ et.logits = es.logits /\ et.embedding = es.embedding
                        /\ et.kv_k = es.kv_k /\ et.kv_v = es.kv_v
            /\ Len(s.logits) >= NVocab =>
                 \A last_n_tokens \in LastNs, top_k \in TopKs, top_p4 \in TopPs,
                    temp \in Temps, repeat_penalty \in Penalties :
                    SampleOutcomes(t, last_n_tokens, top_k, top_p4, temp, repeat_penalty)
                    = SampleOutcomes(s, last_n_tokens, top_k, top_p4, temp, repeat_penalty)

\* C4's case: s evaluated tokens and drew samples, and a fresh t that differed
\* from s in generator state and token counter was restored from the saved state.
C4_Witness ==
    /\ hist.t_restored /\ ctx["t"].params = ctx["s"].params
    /\ ret.op = "set" /\ ret.who = "t"
    /\ ctx["s"].has_evaluated_once
    /\ ctx["s"].kv_k[1] # Junk
    /\ ctx["s"].rng \notin {RngSeed(1), RngSeed(2)}
    /\ ctx["s"].kv_n = MaxNCtx + 1

\* C5: with temp <= 0 sample returns the lowest index among the maxima of the
\* last-step logits, whatever last_n_tokens, top_k, top_p, repeat_penalty and the
\* generator state are, and leaves the generator state as it was.
C5_GreedyIsArgmax ==
    (ret.op = "sample" /\ ret.greedy) =>
        LET pl == PLogits(ctx["s"])
        IN  /\ ret.val \in TokenIds
            /\ \A j \in TokenIds : pl[j + 1] <= pl[ret.val + 1]
            /\ \A j \in TokenIds : j < ret.val => pl[j + 1] < pl[ret.val + 1]
            /\ ctx["s"].rng = ret.rng0

\* C5's case: a temp <= 0 sample over logits whose maximum occurs at two ids, on
\* a session that stores the logits of every token of the batch.
C5_Witness ==
    /\ ret.op = "sample" /\ ret.greedy
    /\ Len(ctx["s"].logits) > NVocab
    /\ \E j \in TokenIds :
          j > ret.val /\ PLogits(ctx["s"])[j + 1] = PLogits(ctx["s"])[ret.val + 1]

\* the scaled logits of a call with temp > 0
ScaledLogits(c, last_n_tokens, temp, repeat_penalty) ==
    [ i \in TokenIds |-> ScaledLogit(PLogits(c), i, last_n_tokens, temp, repeat_penalty) ]

\* the sum of expf(X[j] - maxl) over the ids of S
RECURSIVE WeightOf(_, _)
WeightOf(X, S) ==
    IF S = {} THEN 0
    ELSE LET j == CHOOSE x \in S : TRUE
             maxl == CHOOSE m \in { X[i] : i \in TokenIds } : \A i \in TokenIds : X[i] <= m
         IN  ExpW(X[j] - maxl) + WeightOf(X, S \ {j})

\* id is a kept candidate: fewer than the top-k size ids have a higher scaled
\* logit, and with top_p < 1 the ids with a higher scaled logit, if any, have
\* not reached top_p of the probability of the top-k candidates
KeptCandidate(X, id, top_k, top_p4) ==
    LET size == IF top_k <= 0 THEN NVocab ELSE Min(top_k, NVocab)
        above == { j \in TokenIds : X[j] > X[id] }
        top == CHOOSE S \in SUBSET TokenIds :
                   /\ Cardinality(S) = size
                   /\ \A a \in S, b \in TokenIds \ S : X[a] >= X[b]
    IN  /\ id \in TokenIds
        /\ Cardinality(above) < size
        /\ (top_p4 < 4 /\ above # {}) => 4 * WeightOf(X, above) < top_p4 * WeightOf(X, top)

\* C25: for temp > 0 the token sample returns is a member of the kept
\* candidate set: it is among the min(top_k, n_vocab) highest penalised scaled
\* logits (all ids when top_k <= 0), and when top_p < 1 it lies in the shortest
\* prefix, by descending probability, of those candidates whose cumulative
\* probability reaches top_p; the candidate set is never empty.  Checked for
\* every generator state.
C25_SampleWithinCandidates ==
    Len(ctx["s"].logits) >= NVocab =>
        \A last_n_tokens \in LastNs, top_k \in TopKs \cup {-1, NVocab + 1}, top_p4 \in TopPs,
           temp \in { t \in Temps : t > 0 }, repeat_penalty \in Penalties :
            LET X == ScaledLogits(ctx["s"], last_n_tokens, temp, repeat_penalty)
            IN  /\ \A ord \in SortedOrders(X, TopKSize(top_k)) :
                      /\ Len(Candidates(X, ord, top_p4)) >= 1
                      /\ Len(Candidates(X, ord, top_p4)) <= TopKSize(top_k)
                /\ \A r \in 0 .. 20 :
                   \A out \in SampleOutcomes([ ctx["s"] EXCEPT !.rng = r ], last_n_tokens,
                                             top_k, top_p4, temp, repeat_penalty) :
                      KeptCandidate(X, out[1], top_k, top_p4)

\* C25's case: a sample with temp > 0 returned the id of the lower of two
\* different logits.
C25_Witness ==
    /\ ret.op = "sample" /\ ~ret.greedy
    /\ ret.val = 1
    /\ PLogits(ctx["s"])[2] < PLogits(ctx["s"])[1]
    /\ ctx["s"].rng # ret.rng0

\* C26: for temp > 0 the scaled logit of id i is logits[i]/temp when i is not
\* in last_n_tokens, logits[i]/temp * repeat_penalty when i is in
\* last_n_tokens and logits[i] < 0, and logits[i]/temp / repeat_penalty when
\* i is in last_n_tokens and logits[i] >= 0; for repeat_penalty >= 1 a
\* penalised id's scaled logit is not greater than its unpenalised value and
\* has the same sign.  (Scaled logits are in quarter units.)
C26_RepetitionPenalty ==
    Len(ctx["s"].logits) >= NVocab =>
        \A last_n_tokens \in LastNs, temp \in { t \in Temps : t > 0 },
           repeat_penalty \in Penalties, i \in TokenIds :
            LET l == PLogits(ctx["s"])[i + 1]
                x == ScaledLogits(ctx["s"], last_n_tokens, temp, repeat_penalty)[i]
                plain == ScaledLogits(ctx["s"], {}, temp, repeat_penalty)[i]
            IN  /\ i \notin last_n_tokens => x * temp = 4 * l
                /\ (i \in last_n_tokens /\ l < 0) => x * temp = 4 * l * repeat_penalty
                /\ (i \in last_n_tokens /\ l >= 0) => x * temp * repeat_penalty = 4 * l
                /\ plain * temp = 4 * l
                /\ repeat_penalty >= 1 =>
                      /\ x <= plain
                      /\ (x < 0) = (l < 0) /\ (x > 0) = (l > 0)

\* C26's case: a sample with temp > 0 was drawn on a session whose logit of
\* id 0, an id callers pass in last_n_tokens, is negative.
C26_Witness ==
    /\ ret.op = "sample" /\ ~ret.greedy
    /\ PLogits(ctx["s"])[1] < 0
    /\ 0 \in UNION LastNs
    /\ ScaledLogits(ctx["s"], {0}, 2, 2)[0] < ScaledLogits(ctx["s"], {}, 2, 2)[0]

\* the logits the eval's graph gave for the last token of the batch
LastTokenLogits(c, tokens, n_past) ==
    [ i \in 1 .. NVocab |->
        Logit(c.kv_k, c.kv_v, c.params.n_ctx, n_past + Len(tokens) - 1, i - 1) ]

\* C27: after an eval, sample draws from the logits of the last token of the
\* most recent eval, both when the session stores the logits of the last
\* step only and when logits_all stores n_vocab * N logits: the eval leaves
\* them where sample reads, no call but an eval changes them, and what sample
\* returns depends on no other logits.
C27_SampleReadsLastTokenLogits ==
    [][ /\ \A n_past \in 0 .. MaxNCtx - 1 : \A tokens \in TokenSeqs(MaxNCtx) \ {<<>>} :
              ( /\ ~ctx["s"].params.vocab_only
                /\ n_past + Len(tokens) <= ctx["s"].params.n_ctx
                /\ ret'.op = "eval" /\ ret'.val = 0 /\ aborted' = "none"
                /\ ctx'["s"] = EvalResult(ctx["s"], tokens, n_past) )
              => /\ PLogits(ctx'["s"]) = LastTokenLogits(ctx'["s"], tokens, n_past)
                 /\ Len(ctx'["s"].logits) = IF ctx["s"].params.logits_all
                                            THEN NVocab * Len(tokens) ELSE NVocab
        /\ ret'.op \in {"sample", "set_kv_cache"} => ctx'["s"].logits = ctx["s"].logits
        /\ ret'.op = "sample" =>
              \E last_n_tokens \in LastNs, top_k \in TopKs, top_p4 \in TopPs,
                 temp \in Temps, repeat_penalty \in Penalties :
                  <<ret'.val, ctx'["s"].rng>>
                  \in SampleOutcomes([ ctx["s"] EXCEPT !.logits = PLogits(ctx["s"]) ],
                                     last_n_tokens, top_k, top_p4, temp, repeat_penalty)
      ]_vars

\* C27's case: a sample after an eval of two tokens with logits_all, whose
\* logits for the first token differ from those for the last.
C27_Witness ==
    /\ ret.op = "sample"
    /\ ctx["s"].has_evaluated_once
    /\ Len(ctx["s"].logits) = 2 * NVocab
    /\ SubSeq(ctx["s"].logits, 1, NVocab) # PLogits(ctx["s"])

(***************************************************************************)
(* The tokenizer.  A text is a sequence of bytes (0 .. 255), a vocabulary   *)
(* the vector id_to_token of (tok, score) entries; token_to_id is the map   *)
(* the loader builds from it, the last entry of a text winning.  Symbol     *)
(* indices and token ids count from 0 as in the code.                       *)
(***************************************************************************)
MaxTextLen == 4

Alphabet == {97, 98, 99, 240, 159}
Emoji == <<240, 159, 153, 130>>

RECURSIVE SeqsUpTo(_, _)
SeqsUpTo(X, n) ==
    IF n = 0 THEN { <<>> }
    ELSE LET shorter == SeqsUpTo(X, n - 1)
         IN  shorter \cup { Append(q, x) : q \in shorter, x \in X }

Texts == SeqsUpTo(Alphabet, MaxTextLen) \cup {Emoji}

Tok(t, sc) == [ tok |-> t, score |-> sc ]

VocabEmpty == << >>
VocabAbc == << Tok(<<97>>, 0), Tok(<<98>>, 0), Tok(<<99>>, 0),
               Tok(<<97, 98>>, 1), Tok(<<97, 98, 99>>, 2) >>
VocabTie == << Tok(<<97>>, 0), Tok(<<98>>, 0), Tok(<<99>>, 0),
               Tok(<<97, 98>>, 1), Tok(<<98, 99>>, 1), Tok(<<98, 97>>, 1) >>
VocabStale == << Tok(<<97>>, 0), Tok(<<97, 97>>, 1), Tok(<<97, 97, 97, 97>>, -1) >>
VocabGrow == << Tok(<<98, 99>>, 2), Tok(<<97, 98>>, 1), Tok(<<97, 98, 99>>, 3),
                Tok(<<99, 97>>, 2) >>
VocabSame == << Tok(<<98, 99>>, 2), Tok(<<97, 98>>, 1), Tok(<<97, 98, 99>>, 1) >>
VocabBytes == << Tok(<<240, 159>>, 0), Tok(<<97>>, 0), Tok(<<97>>, 5),
                 Tok(<<240, 159, 97>>, -2), Tok(<<97, 97>>, 0), Tok(<<159, 159>>, 0) >>
VocabOverlap == << Tok(<<97>>, 0), Tok(<<98>>, 0), Tok(<<99>>, 0),
                   Tok(<<97, 98>>, 1), Tok(<<98, 99>>, 2) >>
Vocabs == {VocabEmpty, VocabAbc, VocabTie, VocabStale, VocabGrow, VocabSame, VocabBytes,
           VocabOverlap}

\* vocab.token_to_id.find(t): the id stored for t, -1 for end()
TokenToId(vocab, t) ==
    LET hits == { i \in 1 .. Len(vocab) : vocab[i].tok = t }
    IN  IF hits = {} THEN -1
        ELSE (CHOOSE i \in hits : \A j \in hits : j <= i) - 1

\* llama_token_to_str: the text of a vocabulary id
TokenToStr(vocab, id) == vocab[id + 1].tok

utf8_len(src) ==
    LET highbits == src \div 16
    IN  IF highbits < 12 THEN 1
        ELSE IF highbits < 14 THEN 2
        ELSE IF highbits = 14 THEN 3
        ELSE 4

\* the loop "split string into utf8 chars"
RECURSIVE SplitSymbols(_, _, _, _)
SplitSymbols(text, offs, index, symbols) ==
    IF ~(offs < Len(text)) THEN symbols
    ELSE LET char_len == Min(Len(text) - offs, utf8_len(text[offs + 1]))
             offs1 == offs + char_len
             sym == [ off |-> offs, n |-> char_len, prev |-> index - 1,
                      next |-> IF offs1 = Len(text) THEN -1 ELSE index + 1 ]
         IN  SplitSymbols(text, offs1, index + 1, Append(symbols, sym))

\* std::string(symbol.text, n)
SymText(text, sym, n) == SubSeq(text, sym.off + 1, sym.off + n)

\* work_queue_ after try_add_bigram(left, right)
try_add_bigram(text, vocab, symbols, queue, left, right) ==
    IF left = -1 \/ right = -1 THEN queue
    ELSE LET t == SymText(text, symbols[left + 1],
                          symbols[left + 1].n + symbols[right + 1].n)
             token == TokenToId(vocab, t)
         IN  IF token = -1 THEN queue
             ELSE IF token >= Len(vocab) THEN queue
             ELSE Append(queue, [ left |-> left, right |-> right,
                                  score |-> vocab[token + 1].score, size |-> Len(t) ])

\* the loop "seed the work queue with all possible 2-character tokens"
RECURSIVE SeedQueue(_, _, _, _, _)
SeedQueue(text, vocab, symbols, i, queue) ==
    IF ~(i < Len(symbols)) THEN queue
    ELSE SeedQueue(text, vocab, symbols, i + 1,
                   try_add_bigram(text, vocab, symbols, queue, i - 1, i))

\* faulty variant: equal scores are ordered by the larger left index
comparatorLargerLeft(l, r) ==
    (l.score < r.score) \/ (l.score = r.score /\ l.left < r.left)

\* llama_sp_bigram::comparator: l is below r in the priority queue
comparator(l, r) ==
    (l.score < r.score) \/ (l.score = r.score /\ l.left > r.left)

\* positions work_queue_.top() may return: no element is above them
Tops(queue) ==
    { i \in 1 .. Len(queue) : \A j \in 1 .. Len(queue) : ~comparator(queue[i], queue[j]) }

\* faulty variant: pop() leaves the queue as it was
RemoveAtNone(q, i) == q

\* work_queue_.pop(), top() being the queue's i-th element
RemoveAt(q, i) == SubSeq(q, 1, i - 1) \o SubSeq(q, i + 1, Len(q))

\* faulty variant: the size stored with the bigram is not compared
StillValidSizeUnchecked(symbols, bigram) ==
    ~( symbols[bigram.left + 1].n = 0 \/ symbols[bigram.right + 1].n = 0 )

\* the test of the merge loop that lets a popped bigram through
StillValid(symbols, bigram) ==
    ~( symbols[bigram.left + 1].n = 0 \/ symbols[bigram.right + 1].n = 0
       \/ symbols[bigram.left + 1].n + symbols[bigram.right + 1].n # bigram.size )

\* one iteration of the merge loop, top() being the queue's i-th element
PopStep(text, vocab, symbols, queue, i) ==
    LET bigram == queue[i]
        popped == RemoveAt(queue, i)
        left_sym == symbols[bigram.left + 1]
        right_sym == symbols[bigram.right + 1]
    IN  IF ~StillValid(symbols, bigram)
        THEN [ symbols |-> symbols, queue |-> popped, merged |-> FALSE ]
        ELSE LET s1 == [ symbols EXCEPT ![bigram.left + 1].n = left_sym.n + right_sym.n,
                                        ![bigram.right + 1].n = 0,
                                        ![bigram.left + 1].next = right_sym.next ]
                 s2 == IF right_sym.next >= 0
                       THEN [ s1 EXCEPT ![right_sym.next + 1].prev = bigram.left ]
                       ELSE s1
                 q1 == try_add_bigram(text, vocab, s2, popped,
                                      s2[bigram.left + 1].prev, bigram.left)
                 q2 == try_add_bigram(text, vocab, s2, q1,
                                      bigram.left, s2[bigram.left + 1].next)
             IN  [ symbols |-> s2, queue |-> q2, merged |-> TRUE ]

\* faulty variant: the byte is taken as a signed char
ByteIdSigned(b) == (IF b >= 128 THEN b - 256 ELSE b) + 3

\* static_cast<uint8_t>(symbol.text[j]) + 3
ByteId(b) == b + 3

\* the final loop over the chain of symbols, from symbol i on
RECURSIVE EmitFrom(_, _, _, _, _)
EmitFrom(text, vocab, symbols, i, output) ==
    IF i = -1 THEN output
    ELSE LET symbol == symbols[i + 1]
             token == TokenToId(vocab, SymText(text, symbol, symbol.n))
             out1 == IF token = -1
                     THEN output \o [ j \in 1 .. symbol.n |-> ByteId(text[symbol.off + j]) ]
                     ELSE Append(output, token)
         IN  EmitFrom(text, vocab, symbols, symbol.next, out1)

\* the merge loop run to the end, top() resolved in one of the ways allowed
RECURSIVE RunMerges(_, _, _, _)
RunMerges(text, vocab, symbols, queue) ==
    IF queue = <<>> THEN symbols
    ELSE LET r == PopStep(text, vocab, symbols, queue, CHOOSE i \in Tops(queue) : TRUE)
         IN  RunMerges(text, vocab, r.symbols, r.queue)

\* llama_tokenizer::tokenize appending to output, for a non-empty text
Tokenize(text, vocab, output) ==
    LET symbols == SplitSymbols(text, 0, 0, <<>>)
        queue == SeedQueue(text, vocab, symbols, 1, <<>>)
    IN  EmitFrom(text, vocab, RunMerges(text, vocab, symbols, queue), 0, output)
\* faulty variant: the beginning-of-sequence id is pushed before the empty text returns
TokenizeEntryBosFirst(text, bos) ==
    [ return |-> Len(text) = 0, output |-> IF bos THEN <<1>> ELSE <<>> ]

\* static llama_tokenize up to the call of tokenizer.tokenize: whether it has
\* returned, and the output vector
TokenizeEntry(text, bos) ==
    IF Len(text) = 0 THEN [ return |-> TRUE, output |-> <<>> ]
    ELSE [ return |-> FALSE, output |-> IF bos THEN <<1>> ELSE <<>> ]

\* faulty variant: the tokens that fit are copied before the size is checked
TokenizeOutCopyFirst(res, tokens, n_max_tokens) ==
    [ ret |-> IF n_max_tokens < Len(res) THEN -Len(res) ELSE Len(res),
      tokens |-> [ i \in 1 .. Len(tokens) |-> IF i <= Len(res) THEN res[i] ELSE tokens[i] ] ]

\* public llama_tokenize after res was computed: the value returned and the
\* caller's array tokens
TokenizeOut(res, tokens, n_max_tokens) ==
    IF n_max_tokens < Len(res)
    THEN [ ret |-> -Len(res), tokens |-> tokens ]
    ELSE [ ret |-> Len(res),
           tokens |-> [ i \in 1 .. Len(tokens) |-> IF i <= Len(res) THEN res[i] ELSE tokens[i] ] ]

\* the caller's array before the call: n_max_tokens entries never written
Unwritten == -1
NMaxTokens == {1, MaxTextLen + 1}
NoBigram == [ left |-> -1, right |-> -1, score |-> 0, size |-> 0 ]

InitTok ==
    /\ \E text \in Texts, vocab \in Vocabs, add_bos \in BOOLEAN, n_max_tokens \in NMaxTokens :
          tk = [ pc |-> "start", text |-> text, vocab |-> vocab, add_bos |-> add_bos,
                 n_max_tokens |-> n_max_tokens,
                 tokens |-> [ i \in 1 .. n_max_tokens |-> Unwritten ],
                 symbols |-> <<>>, queue |-> <<>>, output |-> <<>>, ret |-> 0,
                 popped |-> NoBigram, rivals |-> {}, merged |-> FALSE ]
    /\ ctx = [ c \in Sessions |-> NoSession ]
    /\ blob = NoBlob
    /\ ret = Ret("none", "s", 0, FALSE, 0)
    /\ aborted = "none"
    /\ hist = [ phase |-> "tokenize", evald |-> 0, disciplined |-> TRUE, t_restored |-> FALSE ]
    /\ ld = LdIdle
    /\ ml = MlIdle
    /\ ev = EvIdle

\* llama_tokenize(ctx, text, tokens, n_max_tokens, add_bos) up to the merge loop
TokenizeBegin ==
    /\ tk.pc = "start"
    /\ LET e == TokenizeEntry(tk.text, tk.add_bos)
           symbols == SplitSymbols(tk.text, 0, 0, <<>>)
       IN  tk' = IF e.return
                 THEN [ tk EXCEPT !.pc = "ret", !.output = e.output ]
                 ELSE [ tk EXCEPT !.pc = "loop", !.output = e.output,
                                  !.symbols = symbols,
                                  !.queue = SeedQueue(tk.text, tk.vocab, symbols, 1, <<>>) ]
    /\ UNCHANGED <<ctx, blob, ret, aborted, hist, ld, ml, ev>>

\* one iteration of "while (!work_queue_.empty())"
MergeStep ==
    /\ tk.pc = "loop"
    /\ tk.queue # <<>>
    /\ \E i \in Tops(tk.queue) :
          LET r == PopStep(tk.text, tk.vocab, tk.symbols, tk.queue, i)
          IN  tk' = [ tk EXCEPT !.symbols = r.symbols, !.queue = r.queue,
                                !.popped = tk.queue[i],
                                !.rivals = { tk.queue[j] : j \in { k \in 1 .. Len(tk.queue) :
                                                 StillValid(tk.symbols, tk.queue[k]) } },
                                !.merged = r.merged ]
    /\ UNCHANGED <<ctx, blob, ret, aborted, hist, ld, ml, ev>>

\* the queue is empty: the symbols left are emitted and the static function returns
Emit ==
    /\ tk.pc = "loop"
    /\ tk.queue = <<>>
    /\ tk' = [ tk EXCEPT !.pc = "ret",
                         !.output = EmitFrom(tk.text, tk.vocab, tk.symbols, 0, tk.output) ]
    /\ UNCHANGED <<ctx, blob, ret, aborted, hist, ld, ml, ev>>

\* the public function checks n_max_tokens, copies and returns
TokenizeReturn ==
    /\ tk.pc = "ret"
    /\ LET r == TokenizeOut(tk.output, tk.tokens, tk.n_max_tokens)
       IN  tk' = [ tk EXCEPT !.pc = "done", !.ret = r.ret, !.tokens = r.tokens ]
    /\ UNCHANGED <<ctx, blob, ret, aborted, hist, ld, ml, ev>>

NextTok ==
    \/ TokenizeBegin
    \/ MergeStep
    \/ Emit
    \/ TokenizeReturn

SpecTok == InitTok /\ [][NextTok]_vars

\* the call runs on: the thread in llama_tokenize takes its next step for as
\* long as it has one
\* the merge loop reads neither add_bos nor n_max_tokens
InitMerge ==
    /\ InitTok
    /\ ~tk.add_bos
    /\ tk.n_max_tokens = MaxTextLen + 1

SpecTokFair == InitMerge /\ [][NextTok]_vars /\ WF_vars(NextTok)

(***************************************************************************)
(* Claims about the tokenizer, checked under SpecTok.                      *)
(***************************************************************************)

\* the ids of the text itself, without the beginning-of-sequence id
TextIds == IF tk.add_bos /\ tk.output # <<>> THEN Tail(tk.output) ELSE tk.output

\* no two neighbouring characters of the text form a vocabulary entry
NoMergePossible(vocab, text) ==
    LET syms == SplitSymbols(text, 0, 0, <<>>)
    IN  \A i \in 1 .. Len(syms) - 1 :
           TokenToId(vocab, SubSeq(text, syms[i].off + 1, syms[i + 1].off + syms[i + 1].n)) = -1

\* an id back to bytes: a vocabulary id to its text, any other id to the byte id - 3
DecodeId(vocab, id) ==
    IF 0 <= id /\ id < Len(vocab) THEN TokenToStr(vocab, id) ELSE <<id - 3>>

RECURSIVE DecodeIds(_, _)
DecodeIds(vocab, ids) ==
    IF ids = <<>> THEN <<>> ELSE DecodeId(vocab, Head(ids)) \o DecodeIds(vocab, Tail(ids))

\* C6: for a non-empty text in which no merge is possible, decoding the emitted
\* ids gives back the bytes of the text in order; with an empty vocabulary the
\* output is one id per byte of the text, equal to the byte plus 3, also for
\* multi-byte and truncated UTF-8 sequences.
C6_ByteFallbackRoundTrip ==
    (tk.pc \in {"ret", "done"} /\ tk.text # <<>>) =>
        /\ tk.vocab = <<>> => TextIds = [ i \in 1 .. Len(tk.text) |-> tk.text[i] + 3 ]
        /\ NoMergePossible(tk.vocab, tk.text) => DecodeIds(tk.vocab, TextIds) = tk.text

\* C6's case: the four bytes F0 9F 99 82 were tokenized with an empty vocabulary.
C6_Witness ==
    /\ tk.pc = "done" /\ tk.text = Emoji /\ tk.vocab = <<>> /\ ~tk.add_bos
    /\ tk.output = <<243, 162, 156, 133>>

\* C7: whenever the merge loop merges a pair, that pair is a valid queued pair of
\* neighbouring symbols, no valid queued pair has a higher score, and every other
\* valid queued pair of the same score has a larger left index; the vocabulary
\* {a, b, c: 0, ab: 1, abc: 2} tokenizes "abc" to the single id of "abc".
C7_MergesBestPair ==
    /\ (tk.pc \in {"loop", "ret", "done"} /\ tk.merged) =>
          /\ tk.popped \in tk.rivals
          /\ \A v \in tk.rivals \ {tk.popped} :
                \/ v.score < tk.popped.score
                \/ v.score = tk.popped.score /\ v.left > tk.popped.left
    /\ (tk.pc \in {"ret", "done"} /\ tk.vocab = VocabAbc /\ tk.text = <<97, 98, 99>>) =>
          TextIds = << TokenToId(VocabAbc, <<97, 98, 99>>) >>

\* C7's case: a pair was merged while another valid pair of the same score was queued.
C7_Witness ==
    /\ tk.pc = "loop" /\ tk.merged
    /\ \E v \in tk.rivals : v # tk.popped /\ v.score = tk.popped.score

\* C8: with bos = true a non-empty text gives id 1 followed by the segmentation
\* of the text; an empty text gives the empty sequence, bos true or false.
C8_BosThenSegmentation ==
    tk.pc \in {"ret", "done"} =>
        /\ tk.text = <<>> => tk.output = <<>>
        /\ (tk.text # <<>> /\ tk.add_bos) =>
              tk.output = <<1>> \o Tokenize(tk.text, tk.vocab, <<>>)

\* C8's case: a text whose symbols merge was tokenized with bos = true.
C8_Witness ==
    /\ tk.pc = "done" /\ tk.add_bos
    /\ tk.text = <<97, 98, 99>> /\ tk.vocab = VocabAbc
    /\ tk.output = <<1, 4>>

\* C9: the public call returns the number of tokens, all of them written, when
\* the segmentation fits in n_max; otherwise it returns the negated count of
\* tokens and leaves every entry of tokens_out as it was.
C9_CountOrNegatedCount ==
    tk.pc = "done" =>
        LET n == Len(tk.output)
        IN  IF n <= tk.n_max_tokens
            THEN /\ tk.ret = n
                 /\ \A i \in 1 .. n : tk.tokens[i] = tk.output[i]
                 /\ \A i \in n + 1 .. tk.n_max_tokens : tk.tokens[i] = Unwritten
            ELSE /\ tk.ret = -n
                 /\ \A i \in 1 .. tk.n_max_tokens : tk.tokens[i] = Unwritten

\* C9's case: a segmentation longer than a non-empty tokens_out.
C9_Witness ==
    /\ tk.pc = "done" /\ tk.n_max_tokens > 0
    /\ Len(tk.output) > tk.n_max_tokens /\ tk.ret < -1
\* the indices reached from symbol i along next, at most fuel of them
RECURSIVE ChainFrom(_, _, _)
ChainFrom(symbols, i, fuel) ==
    IF i = -1 \/ fuel = 0 THEN <<>>
    ELSE <<i>> \o ChainFrom(symbols, symbols[i + 1].next, fuel - 1)

\* the symbol list is well formed: the chain from the head holds the live
\* symbols and only them, in the order of the text, each starting where the
\* one before it ends, the first at byte 0 and the last ending with the
\* text; prev is the inverse of next along the chain
WellFormed(text, symbols) ==
    LET chain == ChainFrom(symbols, 0, Len(symbols) + 1)
        sym(k) == symbols[chain[k] + 1]
    IN  /\ Len(chain) >= 1 /\ Len(chain) <= Len(symbols)
        /\ { chain[k] : k \in 1 .. Len(chain) }
           = { j \in 0 .. Len(symbols) - 1 : symbols[j + 1].n > 0 }
        /\ sym(1).off = 0 /\ sym(1).prev = -1
        /\ sym(Len(chain)).off + sym(Len(chain)).n = Len(text)
        /\ sym(Len(chain)).next = -1
        /\ \A k \in 1 .. Len(chain) - 1 :
              /\ chain[k] < chain[k + 1]
              /\ sym(k).off + sym(k).n = sym(k + 1).off
              /\ sym(k + 1).prev = chain[k]

\* C29: the symbol list stays well formed through every merge step: the live
\* symbols (n > 0) reached from the head along next are contiguous,
\* non-overlapping byte ranges that cover the whole text in order, prev and
\* next are mutually consistent, and every merge that is executed joins two
\* live symbols that are adjacent in the list at that moment and whose
\* concatenation is a vocabulary key.
C29_SymbolListWellFormed ==
    /\ [](tk.pc = "loop" => WellFormed(tk.text, tk.symbols))
    /\ [][ (tk.pc = "loop" /\ tk'.pc = "loop" /\ tk'.merged) =>
             LET l == tk'.popped.left
                 r == tk'.popped.right
                 left_sym == tk.symbols[l + 1]
                 right_sym == tk.symbols[r + 1]
             IN  /\ left_sym.n > 0 /\ right_sym.n > 0
                 /\ left_sym.next = r /\ right_sym.prev = l
                 /\ TokenToId(tk.vocab, SymText(tk.text, left_sym, left_sym.n + right_sym.n)) # -1
                 /\ tk'.symbols[l + 1].n = left_sym.n + right_sym.n
                 /\ tk'.symbols[r + 1].n = 0
                 /\ WellFormed(tk.text, tk'.symbols)
         ]_vars

\* C29's case: after a merge, a popped pair of two live symbols was discarded
\* because the right one had grown since the pair was pushed.
C29_Witness ==
    /\ tk.pc = "loop"
    /\ tk.popped # NoBigram /\ ~tk.merged
    /\ tk.symbols[tk.popped.left + 1].n > 0
    /\ tk.symbols[tk.popped.right + 1].n > 1
    /\ tk.symbols[tk.popped.left + 1].n + tk.symbols[tk.popped.right + 1].n # tk.popped.size
    /\ \E j \in 1 .. Len(tk.symbols) : tk.symbols[j].n = 0

\* the merges executed so far: each one empties one symbol for good
Merges(symbols) == Cardinality({ j \in 1 .. Len(symbols) : symbols[j].n = 0 })

\* C30: the merge loop terminates for every text and vocabulary: once
\* entered, the loop is left with the work queue empty; the merges executed
\* number at most the initial symbols less one; an iteration pops one pair
\* and pushes at most two, and only when it executes a merge.
C30_MergeLoopTerminates ==
    /\ (tk.pc = "loop") ~> (tk.pc = "ret" /\ tk.queue = <<>>)
    /\ [](tk.pc = "loop" => /\ Merges(tk.symbols) <= Len(tk.symbols) - 1
                            /\ Len(tk.queue) <= Len(tk.symbols) - 1 + Merges(tk.symbols))
    /\ [][ (tk.pc = "loop" /\ tk'.pc = "loop") =>
             /\ tk.queue # <<>>
             /\ Merges(tk'.symbols) = Merges(tk.symbols) + (IF tk'.merged THEN 1 ELSE 0)
             /\ Len(tk'.queue) >= Len(tk.queue) - 1
             /\ Len(tk'.queue) <= Len(tk.queue) - 1 + (IF tk'.merged THEN 2 ELSE 0)
         ]_vars

\* C30's case: the loop was left after as many merges as there can be, three
\* on a text of four symbols.
C30_Witness ==
    /\ tk.pc = "ret"
    /\ tk.queue = <<>>
    /\ Len(tk.symbols) = 4
    /\ Merges(tk.symbols) = Len(tk.symbols) - 1

(***************************************************************************)
(* The header of a model file.  A file is its sequence of bytes.           *)
(***************************************************************************)
MaxVersion == 2

\* the value of a multi-character literal such as 'ggml'
FourCC(a, b, c, d) == ((a * 256 + b) * 256 + c) * 256 + d
MagicGgml == FourCC(103, 103, 109, 108)
MagicGgmf == FourCC(103, 103, 109, 102)
MagicGgjt == FourCC(103, 103, 106, 116)

\* llama_file::read_u32 at position pos: four bytes, the least significant first;
\* a file that ends before them makes the read throw
read_u32(file, pos) ==
    IF pos + 4 > Len(file) THEN [ ok |-> FALSE, val |-> 0, pos |-> pos ]
    ELSE [ ok |-> TRUE,
           val |-> FourCC(file[pos + 4], file[pos + 3], file[pos + 2], file[pos + 1]),
           pos |-> pos + 4 ]

\* faulty variant: the version word is read but not compared
FileVersionAnyVersion(magic, version) ==
    IF magic = MagicGgml THEN "GGML"
    ELSE IF magic = MagicGgmf THEN "GGMF_V1"
    ELSE IF magic = MagicGgjt THEN "GGJT_V1"
    ELSE "unknown"

\* the if-chain of read_magic: the file version of a (magic, version) pair
FileVersion(magic, version) ==
    IF magic = MagicGgml /\ version = 0 THEN "GGML"
    ELSE IF magic = MagicGgmf /\ version = 1 THEN "GGMF_V1"
    ELSE IF magic = MagicGgjt /\ version = 1 THEN "GGJT_V1"
    ELSE "unknown"

\* llama_file_loader::read_magic on a file read from its start
ReadMagicOf(file) ==
    LET m == read_u32(file, 0)
        v == IF m.ok /\ m.val # MagicGgml THEN read_u32(file, m.pos)
             ELSE [ ok |-> m.ok, val |-> 0, pos |-> m.pos ]
        fv == FileVersion(m.val, v.val)
    IN  IF ~m.ok \/ ~v.ok
        THEN [ pos |-> v.pos, file_version |-> "none", error |-> "read" ]
        ELSE IF fv = "unknown"
        THEN [ pos |-> v.pos, file_version |-> "none",
               error |-> "unknown (magic, version) combination" ]
        ELSE [ pos |-> v.pos, file_version |-> fv, error |-> "none" ]

\* the first words of the files tried: the three magics with either end first,
\* and words that are no magic
MagicWords == { <<103, 103, 109, 108>>, <<108, 109, 103, 103>>,
                <<103, 103, 109, 102>>, <<102, 109, 103, 103>>,
                <<103, 103, 106, 116>>, <<116, 106, 103, 103>>,
                <<0, 0, 0, 0>>, <<108, 109, 103, 71>>, <<103, 103, 117, 102>> }
VersionWords == { <<v, 0, 0, 0>> : v \in 0 .. MaxVersion } \cup { <<0, 0, 0, 1>>, <<1, 0>>, <<>> }
Files == { m \o w : m \in MagicWords, w \in VersionWords }
            \cup { SubSeq(m, 1, k) : m \in MagicWords, k \in 0 .. 3 }

InitLoad ==
    /\ \E file \in Files :
          ld = [ pc |-> "open", file |-> file, pos |-> 0, file_version |-> "none",
                 error |-> "none" ]
    /\ ctx = [ c \in Sessions |-> NoSession ]
    /\ blob = NoBlob
    /\ ret = Ret("none", "s", 0, FALSE, 0)
    /\ aborted = "none"
    /\ hist = [ phase |-> "load", evald |-> 0, disciplined |-> TRUE, t_restored |-> FALSE ]
    /\ tk = TkIdle
    /\ ml = MlIdle
    /\ ev = EvIdle

\* the loader's constructor calls read_magic()
ReadMagic ==
    /\ ld.pc = "open"
    /\ LET r == ReadMagicOf(ld.file)
       IN  ld' = [ ld EXCEPT !.pc = IF r.error = "none" THEN "magic" ELSE "failed",
                             !.pos = r.pos, !.file_version = r.file_version,
                             !.error = r.error ]
    /\ UNCHANGED <<ctx, blob, ret, aborted, hist, tk, ml, ev>>

NextLoad == ReadMagic

SpecLoad == InitLoad /\ [][NextLoad]_vars

(***************************************************************************)
(* Claims about the loader, checked under SpecLoad.                        *)
(***************************************************************************)

StartsWith(file, bytes) ==
    Len(file) >= Len(bytes) /\ SubSeq(file, 1, Len(bytes)) = bytes

\* what a load that got past the header, or failed in it, looks like
AcceptedAs(fv, pos) ==
    ld.pc = "magic" /\ ld.file_version = fv /\ ld.pos = pos /\ ld.error = "none"
LoadFailed == ld.pc = "failed" /\ ld.file_version = "none" /\ ld.error # "none"

\* C10 as stated: a file starting with bytes 67 67 6D 6C is accepted as legacy
\* version 0 without a version word being consumed, 67 67 6D 66 01 00 00 00 as
\* GGMF v1, 67 67 6A 74 01 00 00 00 as GGJT v1, and every other file fails.
C10_MagicBytesAsStated ==
    ld.pc \in {"magic", "failed"} =>
        IF StartsWith(ld.file, <<103, 103, 109, 108>>) THEN AcceptedAs("GGML", 4)
        ELSE IF StartsWith(ld.file, <<103, 103, 109, 102, 1, 0, 0, 0>>) THEN AcceptedAs("GGMF_V1", 8)
        ELSE IF StartsWith(ld.file, <<103, 103, 106, 116, 1, 0, 0, 0>>) THEN AcceptedAs("GGJT_V1", 8)
        ELSE LoadFailed

\* C10: a file starting with bytes 6C 6D 67 67 (the value 'ggml' stored least
\* significant byte first) is accepted as legacy version 0 without a version
\* word being consumed, 66 6D 67 67 01 00 00 00 as GGMF v1,
\* 74 6A 67 67 01 00 00 00 as GGJT v1, and every other file fails.
C10_MagicBytesLittleEndian ==
    ld.pc \in {"magic", "failed"} =>
        IF StartsWith(ld.file, <<108, 109, 103, 103>>) THEN AcceptedAs("GGML", 4)
        ELSE IF StartsWith(ld.file, <<102, 109, 103, 103, 1, 0, 0, 0>>) THEN AcceptedAs("GGMF_V1", 8)
        ELSE IF StartsWith(ld.file, <<116, 106, 103, 103, 1, 0, 0, 0>>) THEN AcceptedAs("GGJT_V1", 8)
        ELSE LoadFailed

\* C10's case: a file with the legacy magic followed by further bytes was
\* accepted with only the magic consumed.
C10_Witness ==
    /\ AcceptedAs("GGML", 4)
    /\ StartsWith(ld.file, <<108, 109, 103, 103>>)
    /\ Len(ld.file) = 8

(***************************************************************************)
(* Model files.  A file is what lies at each byte offset (a 32-bit word, a *)
(* run of raw bytes or words, a tensor payload) together with its length.  *)
(* Tensor names are sequences of character codes.  uint32_t and size_t are *)
(* modelled at a reduced width: a product wraps modulo the type's maximum  *)
(* plus one.                                                               *)
(***************************************************************************)
UInt32Max == 255
SizeMax == 32767

\* std::string::npos, written as the representative of size_t(-1) nearest zero
npos == -1

\* the offsets (0-based) at which pat occurs in s
Occurs(s, pat) ==
    { i \in 0 .. Len(s) - Len(pat) : SubSeq(s, i + 1, i + Len(pat)) = pat }
\* std::string::find and rfind
find(s, pat) ==
    IF Occurs(s, pat) = {} THEN npos
    ELSE CHOOSE i \in Occurs(s, pat) : \A j \in Occurs(s, pat) : i <= j
rfind(s, pat) ==
    IF Occurs(s, pat) = {} THEN npos
    ELSE CHOOSE i \in Occurs(s, pat) : \A j \in Occurs(s, pat) : i >= j

\* ggml's size of one block of a dtype and the elements in a block
\* (F32 = 0, F16 = 1, Q4_0 = 2, Q4_1 = 3)
ggml_type_size(type) ==
    CASE type = 0 -> 4 [] type = 1 -> 2 [] type = 2 -> 20 [] type = 3 -> 24 [] OTHER -> 0
ggml_blck_size(type) == IF type \in {2, 3} THEN 32 ELSE 1

\* faulty variant: the product is only compared with an operand
checked_mul_compare(a, b, max) ==
    LET r == (a * b) % (max + 1)
    IN  [ ok |-> ~(b # 0 /\ r < a), val |-> r ]

\* checked_mul<T>(a, b) for an unsigned T with maximum max: ok is FALSE when it throws
checked_mul(a, b, max) ==
    LET r == (a * b) % (max + 1)
    IN  [ ok |-> ~(a # 0 /\ r \div a # b), val |-> r ]

\* llama_calc_tensor_size(ne, type); every caller passes 1 or 2 dimensions
llama_calc_tensor_size(ne, type) ==
    LET s1 == checked_mul(ggml_type_size(type), ne[1], SizeMax)
        s2 == IF Len(ne) = 2 /\ s1.ok THEN checked_mul(s1.val, ne[2], SizeMax) ELSE s1
    IN  [ ok |-> s2.ok, val |-> s2.val \div ggml_blck_size(type) ]

NoFile == [ mem |-> EmptyMem, size |-> 0 ]
\* llama_file::write_u32 / write_raw of len bytes at offset pos
Put(f, pos, item, len) ==
    IF len = 0 THEN f
    ELSE [ mem |-> Store(f.mem, pos, item), size |-> Max(f.size, pos + len) ]
\* llama_file::read_raw of n bytes of a payload at offset off
RawAt(mem, off, n) ==
    LET have == IF off \in DOMAIN mem /\ mem[off].t = "raw" THEN mem[off].v ELSE <<>>
    IN  [ i \in 1 .. n |-> IF i <= Len(have) THEN have[i] ELSE Junk ]

\* write_vocab's loop over the tokens, the file positioned at pos
RECURSIVE WriteVocab(_, _, _, _)
WriteVocab(f, pos, vocab, with_scores) ==
    IF vocab = <<>> THEN [ f |-> f, pos |-> pos ]
    ELSE LET t == Head(vocab)
             p3 == pos + 4 + Len(t.tok)
             f1 == Put(f, pos, [t |-> "int", v |-> Len(t.tok)], 4)
             f2 == Put(f1, pos + 4, [t |-> "chars", v |-> t.tok], Len(t.tok))
             f3 == IF with_scores THEN Put(f2, p3, [t |-> "int", v |-> t.score], 4) ELSE f2
         IN  WriteVocab(f3, IF with_scores THEN p3 + 4 ELSE p3, Tail(vocab), with_scores)

\* write_magic, write_hparams and write_vocab: the words of the magic, the seven
\* hyperparameters, the vocabulary
WriteHeader(words, hp, vocab, with_scores) ==
    LET ints == words \o <<hp.n_vocab, hp.n_embd, hp.n_mult, hp.n_head,
                           hp.n_layer, hp.n_rot, hp.ftype>>
        f == [ mem |-> [ o \in { 4 * (i - 1) : i \in 1 .. Len(ints) } |->
                           [t |-> "int", v |-> ints[(o \div 4) + 1]] ],
               size |-> 4 * Len(ints) ]
    IN  WriteVocab(f, 4 * Len(ints), vocab, with_scores)

\* faulty variant: the payload is aligned to 16 bytes
SaverSkip16(tell) == (16 - (tell % 16)) % 16

\* file.seek(-file.tell() & 31, SEEK_CUR) of write_tensor: the bytes skipped
SaverSkip(tell) == (32 - (tell % 32)) % 32

\* llama_file_saver::write_tensor, the file positioned at pos: the file, the
\* offset of the payload, the position after it, and the assertion that failed
write_tensor(f, pos, tensor, new_type, new_data, new_size) ==
    LET n == Len(tensor.ne)
        p_name == pos + 12 + 4 * n
        p_end == p_name + Len(tensor.name)
        p_data == p_end + SaverSkip(p_end)
        f1 == Put(f, pos, [t |-> "int", v |-> n], 4)
        f2 == Put(f1, pos + 4, [t |-> "int", v |-> Len(tensor.name)], 4)
        f3 == Put(f2, pos + 8, [t |-> "int", v |-> new_type], 4)
        f4 == Put(f3, pos + 12, [t |-> "chars", v |-> tensor.ne], 4 * n)
        f5 == Put(f4, p_name, [t |-> "chars", v |-> tensor.name], Len(tensor.name))
        f6 == Put(f5, p_data, [t |-> "raw", v |-> new_data], new_size)
        want == llama_calc_tensor_size(tensor.ne, new_type)
    IN  IF new_type \notin 0 .. 3
        THEN [ f |-> f, off |-> pos, pos |-> pos, abort |-> "false", error |-> "none" ]
        ELSE IF ~want.ok
        THEN [ f |-> f5, off |-> p_data, pos |-> p_data, abort |-> "none",
               error |-> "overflow multiplying" ]
        ELSE IF new_size # want.val
        THEN [ f |-> f5, off |-> p_data, pos |-> p_data, error |-> "none",
               abort |-> "new_size == llama_calc_tensor_size(tensor.ne, new_type)" ]
        ELSE [ f |-> f6, off |-> p_data, pos |-> p_data + new_size,
               abort |-> "none", error |-> "none" ]

(***************************************************************************)
(* llama_file_loader: the header, the vocabulary and the tensor metadata.  *)
(***************************************************************************)
\* the seek of read_tensor_metadata before the payload: the bytes skipped
LoaderSkip(tell, file_version) ==
    IF file_version = "GGJT_V1" THEN (32 - (tell % 32)) % 32 ELSE 0

\* one pass of read_tensor_metadata's loop, the file positioned at pos: the
\* name and shard read, the position after the payload, the error thrown
ReadTensorRecord(f, pos, file_version, file_idx) ==
    LET Record(n_dims, name, type, ne, p_end, size) ==
            IF p_end > f.size
            THEN [ error |-> "read error", name |-> name, next |-> pos ]
            ELSE IF n_dims < 1 \/ n_dims > 2
            THEN [ error |-> "tensor should not be n-dimensional", name |-> name,
                   next |-> pos ]
            ELSE IF type \notin 0 .. 3
            THEN [ error |-> "unrecognized tensor type", name |-> name, next |-> pos ]
            ELSE IF ~size.ok
            THEN [ error |-> "overflow multiplying", name |-> name, next |-> pos ]
            ELSE [ error |-> "none", name |-> name,
                   shard |-> [ ne |-> ne, size |-> size.val, type |-> type,
                               file_idx |-> file_idx,
                               file_off |-> p_end + LoaderSkip(p_end, file_version) ],
                   next |-> p_end + LoaderSkip(p_end, file_version) + size.val ]
        Words(n_dims, name_len, type) ==
            Record(n_dims, CharsAt(f.mem, pos + 12 + 4 * n_dims, name_len), type,
                   CharsAt(f.mem, pos + 12, n_dims), pos + 12 + 4 * n_dims + name_len,
                   llama_calc_tensor_size(CharsAt(f.mem, pos + 12, n_dims), type))
    IN  Words(IntAt(f.mem, pos), IntAt(f.mem, pos + 4), IntAt(f.mem, pos + 8))

\* at most n passes of read_tensor_metadata's loop from st = [pos, error,
\* tensors]: each pass adds a shard to the tensor of its name in
\* tensors_map.tensors (a new one, at the end, for a name not met before)
RECURSIVE ReadRecords(_, _, _, _, _)
ReadRecords(f, st, n, file_version, file_idx) ==
    LET Add(r, hit) ==
            IF r.error # "none" THEN [ st EXCEPT !.error = r.error ]
            ELSE [ pos |-> r.next, error |-> "none",
                   tensors |-> IF hit = {}
                               THEN Append(st.tensors, [ name |-> r.name, shards |-> <<r.shard>> ])
                               ELSE [ st.tensors EXCEPT ![CHOOSE i \in hit : TRUE].shards =
                                                            Append(@, r.shard) ] ]
        Pass(r) == Add(r, { i \in 1 .. Len(st.tensors) : st.tensors[i].name = r.name })
    IN  IF n = 0 \/ st.pos >= f.size \/ st.error # "none" THEN st
        ELSE IF n = 1 THEN Pass(ReadTensorRecord(f, st.pos, file_version, file_idx))
        ELSE ReadRecords(f, ReadRecords(f, st, n \div 2, file_version, file_idx),
                         n - (n \div 2), file_version, file_idx)

\* read_tensor_metadata: the loop until the end of the file (a pass reads at
\* least the three words of a record); the error thrown and tensors_map
read_tensor_metadata(f, pos, file_version, file_idx, tensors) ==
    ReadRecords(f, [ pos |-> pos, error |-> "none", tensors |-> tensors ],
                (f.size \div 12) + 1, file_version, file_idx)

\* read_vocab: n tokens from pos on, each with a score iff the version has them
RECURSIVE read_vocab(_, _, _, _, _)
read_vocab(f, pos, n, with_scores, vocab) ==
    IF n = 0 \/ pos > f.size THEN [ pos |-> pos, vocab |-> vocab ]
    ELSE LET len == IntAt(f.mem, pos)
             word == CharsAt(f.mem, pos + 4, len)
             score == IF with_scores THEN IntAt(f.mem, pos + 4 + len) ELSE 0
         IN  read_vocab(f, pos + 4 + len + (IF with_scores THEN 4 ELSE 0), n - 1,
                        with_scores, Append(vocab, [ tok |-> word, score |-> score ]))

\* the constructor of llama_file_loader on file f, adding to tensors_map
llama_file_loader(f, file_idx, tensors) ==
    LET Loaded(fv, hp, voc, tm) ==
            IF tm.error # "none" THEN [ error |-> tm.error ]
            ELSE [ error |-> "none", file_version |-> fv, hparams |-> hp,
                   vocab |-> voc.vocab, tensors |-> tm.tensors ]
        Tensors(fv, hp, voc) ==
            IF voc.pos > f.size THEN [ error |-> "read error" ]
            ELSE Loaded(fv, hp, voc, read_tensor_metadata(f, voc.pos, fv, file_idx, tensors))
        Vocab(fv, p1, hp) ==
            IF p1 + 28 > f.size THEN [ error |-> "read error" ]
            ELSE Tensors(fv, hp, read_vocab(f, p1 + 28, hp.n_vocab, fv # "GGML", <<>>))
        Hparams(fv, p1) ==
            IF p1 > f.size THEN [ error |-> "read error" ]
            ELSE IF fv = "unknown" THEN [ error |-> "unknown (magic, version) combination" ]
            ELSE Vocab(fv, p1,
                       [ n_vocab |-> IntAt(f.mem, p1), n_embd |-> IntAt(f.mem, p1 + 4),
                         n_mult |-> IntAt(f.mem, p1 + 8), n_head |-> IntAt(f.mem, p1 + 12),
                         n_layer |-> IntAt(f.mem, p1 + 16), n_rot |-> IntAt(f.mem, p1 + 20),
                         ftype |-> IntAt(f.mem, p1 + 24) ])
        Magic(magic) ==
            Hparams(FileVersion(magic, IF magic # MagicGgml THEN IntAt(f.mem, 4) ELSE 0),
                    IF magic # MagicGgml THEN 8 ELSE 4)
    IN  Magic(IntAt(f.mem, 0))

(***************************************************************************)
(* llama_load_tensor and llama_model_loader.                               *)
(***************************************************************************)
\* the string literals of the source
Lit ==
    [ weight |-> <<119, 101, 105, 103, 104, 116>>,
      tok_embeddings_dot |-> <<116, 111, 107, 95, 101, 109, 98, 101, 100, 100, 105,
                               110, 103, 115, 46>>,
      attention_wo |-> <<46, 97, 116, 116, 101, 110, 116, 105, 111, 110, 46, 119, 111,
                         46, 119, 101, 105, 103, 104, 116>>,
      feed_forward_w2 |-> <<46, 102, 101, 101, 100, 95, 102, 111, 114, 119, 97, 114,
                            100, 46, 119, 50, 46, 119, 101, 105, 103, 104, 116>>,
      tok_embeddings |-> <<116, 111, 107, 95, 101, 109, 98, 101, 100, 100, 105, 110,
                           103, 115, 46, 119, 101, 105, 103, 104, 116>>,
      norm |-> <<110, 111, 114, 109, 46, 119, 101, 105, 103, 104, 116>>,
      output |-> <<111, 117, 116, 112, 117, 116, 46, 119, 101, 105, 103, 104, 116>>,
      layers_dot |-> <<108, 97, 121, 101, 114, 115, 46>>,
      attention_norm |-> <<46, 97, 116, 116, 101, 110, 116, 105, 111, 110, 95, 110, 111,
                           114, 109, 46, 119, 101, 105, 103, 104, 116>>,
      attention_wq |-> <<46, 97, 116, 116, 101, 110, 116, 105, 111, 110, 46, 119, 113,
                         46, 119, 101, 105, 103, 104, 116>>,
      attention_wk |-> <<46, 97, 116, 116, 101, 110, 116, 105, 111, 110, 46, 119, 107,
                         46, 119, 101, 105, 103, 104, 116>>,
      attention_wv |-> <<46, 97, 116, 116, 101, 110, 116, 105, 111, 110, 46, 119, 118,
                         46, 119, 101, 105, 103, 104, 116>>,
      ffn_norm |-> <<46, 102, 102, 110, 95, 110, 111, 114, 109, 46, 119, 101, 105, 103,
                     104, 116>>,
      feed_forward_w1 |-> <<46, 102, 101, 101, 100, 95, 102, 111, 114, 119, 97, 114,
                            100, 46, 119, 49, 46, 119, 101, 105, 103, 104, 116>>,
      feed_forward_w3 |-> <<46, 102, 101, 101, 100, 95, 102, 111, 114, 119, 97, 114,
                            100, 46, 119, 51, 46, 119, 101, 105, 103, 104, 116>> ]

\* faulty variant: the two ".weight" patterns must end the name
calc_split_type_suffix(name, shards) ==
    IF Len(shards[1].ne) = 1 \/ Len(shards) = 1 THEN "NONE"
    ELSE IF \/ find(name, Lit.tok_embeddings_dot) = 0
            \/ /\ rfind(name, Lit.attention_wo) # npos
               /\ rfind(name, Lit.attention_wo) = Len(name) - Len(Lit.attention_wo)
            \/ /\ rfind(name, Lit.feed_forward_w2) # npos
               /\ rfind(name, Lit.feed_forward_w2) = Len(name) - Len(Lit.feed_forward_w2)
         THEN "BY_COLUMNS"
    ELSE "BY_ROWS"

\* llama_load_tensor::calc_split_type
calc_split_type(name, shards) ==
    IF Len(shards[1].ne) = 1 \/ Len(shards) = 1 THEN "NONE"
    ELSE IF \/ find(name, Lit.tok_embeddings_dot) = 0
            \/ find(name, Lit.attention_wo) # npos
            \/ find(name, Lit.feed_forward_w2) # npos
         THEN "BY_COLUMNS"
    ELSE "BY_ROWS"

\* llama_load_tensor::calc_all: calc_type, calc_split_type, calc_ne, calc_size
calc_all(name, shards) ==
    LET Size(first, split_type, m, ne, size) ==
            IF \E i \in 1 .. Len(shards) : shards[i].type # first.type
            THEN [ error |-> "inconsistent tensor shard type", name |-> name,
                   shards |-> shards ]
            ELSE IF \E i \in 1 .. Len(shards) : shards[i].ne # first.ne
            THEN [ error |-> "inconsistent tensor shard shape", name |-> name,
                   shards |-> shards ]
            ELSE IF ~m.ok \/ ~size.ok
            THEN [ error |-> "overflow multiplying", name |-> name, shards |-> shards ]
            ELSE [ error |-> "none", name |-> name, shards |-> shards, type |-> first.type,
                   split_type |-> split_type, ne |-> ne, size |-> size.val ]
        Ne(first, split_type, m, ne) ==
            Size(first, split_type, m, ne, llama_calc_tensor_size(ne, first.type))
        Split(first, split_type, m) ==
            Ne(first, split_type, m,
               IF split_type = "BY_COLUMNS" THEN <<m.val, first.ne[2]>>
               ELSE IF split_type = "BY_ROWS" THEN <<first.ne[1], m.val>>
               ELSE first.ne)
        Type(first, split_type) ==
            Split(first, split_type,
                  IF split_type = "BY_COLUMNS"
                  THEN checked_mul(first.ne[1], Len(shards), UInt32Max)
                  ELSE IF split_type = "BY_ROWS"
                  THEN checked_mul(first.ne[2], Len(shards), UInt32Max)
                  ELSE [ ok |-> TRUE, val |-> 0 ])
    IN  Type(shards[1], calc_split_type(name, shards))

\* faulty variant: no offset keeps the loader from mapping the file
alignment_prevents_mmap_never(lts) == FALSE

\* llama_model_loader::alignment_prevents_mmap
alignment_prevents_mmap(lts) ==
    \E i \in 1 .. Len(lts) : \E k \in 1 .. Len(lts[i].shards) :
        lts[i].shards[k].file_off % 4 # 0

\* the constructor of llama_model_loader on the files base, base.1 (a further
\* part does not exist); tok_embeddings.weight has a non-zero first dimension
llama_model_loader(files, use_mmap, vocab_only) ==
    LET Result(first, n_parts, lts, bad) ==
            IF bad # {}
            THEN [ error |-> lts[CHOOSE i \in bad : \A j \in bad : i <= j].error ]
            ELSE [ error |-> "none", file_version |-> first.file_version,
                   hparams |-> first.hparams, vocab |-> first.vocab,
                   n_parts |-> Max(n_parts, 1),
                   use_mmap |-> use_mmap /\ ~alignment_prevents_mmap(lts),
                   tensors |-> lts ]
        Tensors(first, n_parts, lts) ==
            Result(first, n_parts, lts, { i \in 1 .. Len(lts) : lts[i].error # "none" })
        Parts(first, n_parts, second) ==
            IF second.error # "none" THEN [ error |-> second.error ]
            ELSE IF n_parts >= 2 /\ second.hparams # first.hparams
            THEN [ error |-> "hparams inconsistent between files" ]
            ELSE IF n_parts >= 3 THEN [ error |-> "failed to open" ]
            ELSE Tensors(first, n_parts,
                         [ i \in 1 .. Len(second.tensors) |->
                             calc_all(second.tensors[i].name, second.tensors[i].shards) ])
        Guess(first, n_parts) ==
            IF n_parts >= 2 /\ Len(files) < 2 THEN [ error |-> "failed to open" ]
            ELSE Parts(first, n_parts,
                       IF n_parts >= 2 THEN llama_file_loader(files[2], 1, first.tensors)
                       ELSE first)
        First(first, tok) ==
            IF ~vocab_only /\ tok = {} THEN [ error |-> "missing tok_embeddings.weight" ]
            ELSE Guess(first,
                       IF vocab_only THEN 1
                       ELSE first.hparams.n_embd
                                \div first.tensors[CHOOSE i \in tok : TRUE].shards[1].ne[1])
        Opened(first) ==
            IF first.error # "none" THEN [ error |-> first.error ]
            ELSE First(first, { i \in 1 .. Len(first.tensors) :
                                    first.tensors[i].name = Lit.tok_embeddings })
    IN  Opened(llama_file_loader(files[1], 0, <<>>))

\* faulty variant: the shards are copied one after another
ColumnSourceSequential(o, per_shard_row_size, n_shards, num_rows) ==
    [ k |-> ((o \div per_shard_row_size) \div num_rows) + 1,
      at |-> o % (per_shard_row_size * num_rows) ]

\* the reshape loop of load_data_for (rows outside, tmp_bufs inside): the
\* shard k and the offset in its buffer that the memcpy writing destination
\* byte o (0-based) reads
ColumnSource(o, per_shard_row_size, n_shards, num_rows) ==
    [ k |-> ((o \div per_shard_row_size) % n_shards) + 1,
      at |-> ((o \div per_shard_row_size) \div n_shards) * per_shard_row_size
             + (o % per_shard_row_size) ]

\* llama_model_loader::load_data_for(lt) into a buffer of lt.size bytes: the
\* bytes it leaves there and the assertion that failed; a BY_COLUMNS tensor
\* has at least one row
load_data_for(lt, files, use_mmap) ==
    LET shards == lt.shards
        from(k, n) == RawAt(files[shards[k].file_idx + 1].mem, shards[k].file_off, n)
        tmp_bufs == [ k \in 1 .. Len(shards) |-> from(k, shards[k].size) ]
        num_rows == lt.ne[2]
        per_shard_row_size == shards[1].size \div num_rows
        src(o) == ColumnSource(o, per_shard_row_size, Len(shards), num_rows)
        rows_offset == SumSeq([ k \in 1 .. Len(shards) |-> shards[k].size ])
        cols_offset == num_rows * Len(shards) * per_shard_row_size
        \* the shard that the read_raw writing destination byte o reads, BY_ROWS
        row_shard(o) == CHOOSE k \in 1 .. Len(shards) :
                            /\ SumSeq([ j \in 1 .. k - 1 |-> shards[j].size ]) <= o
                            /\ o < SumSeq([ j \in 1 .. k |-> shards[j].size ])
    IN  IF use_mmap
        THEN [ data |-> from(1, lt.size),
               abort |-> IF Len(shards) = 1 THEN "none" ELSE "lt.shards.size() == 1" ]
        ELSE IF lt.split_type = "NONE"
        THEN [ data |-> from(1, lt.size), abort |-> "none" ]
        ELSE IF lt.split_type = "BY_ROWS"
        THEN [ data |-> [ i \in 1 .. lt.size |->
                            IF i - 1 < rows_offset
                            THEN tmp_bufs[row_shard(i - 1)]
                                   [i - SumSeq([ j \in 1 .. row_shard(i - 1) - 1 |->
                                                   shards[j].size ])]
                            ELSE Junk ],
               abort |-> IF rows_offset = lt.size THEN "none" ELSE "offset == lt.size" ]
        ELSE [ data |-> [ i \in 1 .. lt.size |->
                            IF i - 1 < cols_offset
                            THEN tmp_bufs[src(i - 1).k][src(i - 1).at + 1]
                            ELSE Junk ],
               abort |-> IF cols_offset = lt.size THEN "none" ELSE "out_offset == lt.size" ]

(***************************************************************************)
(* The model files tried: each is laid out from a description (the magic   *)
(* words, the hyperparameters, the vocabulary, the tensor records), in the *)
(* format its magic announces.  The payload of record k of part p is a run *)
(* of bytes that name (p, k, offset).                                      *)
(***************************************************************************)
PayloadOf(part, k, size) == [ i \in 1 .. size |-> ((part * 512 + k) * 1024) + i ]

\* the records lo .. hi of recs written from pos on: the file and the end
RECURSIVE WriteRecords(_, _, _, _, _, _, _)
WriteRecords(f, pos, recs, lo, hi, part, padded) ==
    IF lo > hi THEN [ f |-> f, pos |-> pos ]
    ELSE IF lo = hi
    THEN LET r == recs[lo]
             p_name == pos + 12 + 4 * Len(r.ne)
             p_end == p_name + Len(r.name)
             p_data == p_end + (IF padded THEN (32 - (p_end % 32)) % 32 ELSE 0)
             size == IF r.n_dims \in 1 .. 2 /\ r.type \in 0 .. 3
                        /\ llama_calc_tensor_size(r.ne, r.type).ok
                     THEN llama_calc_tensor_size(r.ne, r.type).val ELSE 0
             f1 == Put(f, pos, [t |-> "int", v |-> r.n_dims], 4)
             f2 == Put(f1, pos + 4, [t |-> "int", v |-> Len(r.name)], 4)
             f3 == Put(f2, pos + 8, [t |-> "int", v |-> r.type], 4)
             f4 == Put(f3, pos + 12, [t |-> "chars", v |-> r.ne], 4 * Len(r.ne))
             f5 == Put(f4, p_name, [t |-> "chars", v |-> r.name], Len(r.name))
             f6 == Put(f5, p_data, [t |-> "raw", v |-> PayloadOf(part, lo, size)], size)
         IN  [ f |-> f6, pos |-> p_data + size ]
    ELSE LET mid == (lo + hi) \div 2
             left == WriteRecords(f, pos, recs, lo, mid, part, padded)
         IN  IF left.pos < pos THEN left
             ELSE WriteRecords(left.f, left.pos, recs, mid + 1, hi, part, padded)

FileOf(d, part) ==
    LET h == WriteHeader(d.words, d.hparams, d.vocab, d.words[1] # MagicGgml)
    IN  WriteRecords(h.f, h.pos, d.recs, 1, Len(d.recs), part, d.words[1] = MagicGgjt).f

(***************************************************************************)
(* llama_model_quantize, one tensor of its loop per step, and a loader     *)
(* that afterwards reads the file the quantizer saved.                     *)
(***************************************************************************)
\* faulty variant: every ftype from MOSTLY_Q4_0 on is taken
quantized_type_from_q4_0(ftype) == IF ftype = 2 THEN 2 ELSE IF ftype >= 3 THEN 3 ELSE -1

\* the switch on ftype: GGML_TYPE_Q4_0, GGML_TYPE_Q4_1, or -1 where it throws
quantized_type(ftype) == IF ftype = 2 THEN 2 ELSE IF ftype = 3 THEN 3 ELSE -1

\* the `quantize` flag of the loop for a tensor
Quantizes(name, ne) == rfind(name, Lit.weight) = Len(name) - 6 /\ Len(ne) = 2

\* what ggml_quantize_q4_0 / ggml_quantize_q4_1 return for nelements floats
ggml_quantize(nelements, type) ==
    (nelements \div ggml_blck_size(type)) * ggml_type_size(type)

\* no process state outside the model-file run
NoSessions ==
    /\ ctx = [ c \in Sessions |-> NoSession ]
    /\ blob = NoBlob
    /\ ret = Ret("none", "s", 0, FALSE, 0)
    /\ aborted = "none"
    /\ hist = [ phase |-> "file", evald |-> 0, disciplined |-> TRUE, t_restored |-> FALSE ]
    /\ tk = TkIdle
    /\ ld = LdIdle
    /\ ev = EvIdle

MaxTensors == 2

\* the tensors of the files given to the quantizer, besides tok_embeddings.weight
QuantPool ==
    { [ n_dims |-> 1, name |-> Lit.norm, type |-> 0, ne |-> <<3>> ],
      [ n_dims |-> 2, name |-> <<97, 98, 99, 100, 101>>, type |-> 0, ne |-> <<32, 1>> ],
      [ n_dims |-> 2, name |-> Lit.weight \o <<115>>, type |-> 1, ne |-> <<32, 2>> ],
      [ n_dims |-> 1, name |-> <<46, 120>>, type |-> 1, ne |-> <<1>> ],
      [ n_dims |-> 2, name |-> Lit.weight, type |-> 1, ne |-> <<32, 1>> ],
      [ n_dims |-> 2, name |-> Lit.output, type |-> 2, ne |-> <<32, 2>> ],
      [ n_dims |-> 2, name |-> <<108, 48>> \o Lit.attention_wo, type |-> 0, ne |-> <<32, 3>> ],
      [ n_dims |-> 1, name |-> <<98, 105, 97, 115>>, type |-> 1, ne |-> <<5>> ] }

\* the files: one part, or two parts that each hold half the columns of
\* tok_embeddings.weight and the same further tensors
QuantInputs ==
    { [ p \in 1 .. parts |->
          FileOf([ words |-> words,
                   hparams |-> [ n_vocab |-> Len(vocab), n_embd |-> 32, n_mult |-> 1,
                                 n_head |-> 1, n_layer |-> 1, n_rot |-> 32, ftype |-> 1 ],
                   vocab |-> vocab,
                   recs |-> <<[ n_dims |-> 2, name |-> Lit.tok_embeddings, type |-> 1,
                                ne |-> <<32 \div parts, 2>> ]>> \o more ], p - 1) ] :
        parts \in 1 .. 2,
        words \in { <<MagicGgml>>, <<MagicGgjt, 1>>, <<MagicGgjt, 2>> },
        vocab \in { <<>>, <<[ tok |-> <<97, 98, 99>>, score |-> 1 ]>> },
        more \in UNION { [ 1 .. n -> QuantPool ] : n \in 0 .. MaxTensors } }

InitQuant ==
    /\ \E files \in QuantInputs, ftype \in 1 .. 4 :
          ml = [ pc |-> "start", files |-> files, ftype |-> ftype, in_opened |-> FALSE,
                 out_created |-> FALSE, out |-> NoFile, pos |-> 0,
                 loader |-> [ error |-> "not read" ], idx |-> 1, wrote |-> <<>>,
                 ret |-> -1, error |-> "none", reread |-> [ error |-> "not read" ] ]
    /\ NoSessions

\* llama_model_quantize up to the loop: the switch on ftype, the model loader
\* on the input, the saver's constructor on the output
QuantizeBegin ==
    /\ ml.pc = "start"
    /\ LET loader == llama_model_loader(ml.files, FALSE, FALSE)
           h == WriteHeader(<<MagicGgjt, 1>>, [ loader.hparams EXCEPT !.ftype = ml.ftype ],
                            loader.vocab, TRUE)
       IN  ml' = IF quantized_type(ml.ftype) = -1
                 THEN [ ml EXCEPT !.pc = "done", !.ret = 1,
                                  !.error = "invalid output file type" ]
                 ELSE IF loader.error # "none"
                 THEN [ ml EXCEPT !.pc = "done", !.ret = 1, !.error = loader.error,
                                  !.in_opened = TRUE ]
                 ELSE [ ml EXCEPT !.pc = "loop", !.in_opened = TRUE, !.loader = loader,
                                  !.out_created = TRUE, !.out = h.f, !.pos = h.pos ]
    /\ UNCHANGED <<ctx, blob, ret, aborted, hist, tk, ld, ev>>

\* one pass of the loop over the tensors: load_data_for, the choice whether to
\* quantize, the conversion, write_tensor
QuantizeTensor ==
    /\ ml.pc = "loop"
    /\ ml.idx <= Len(ml.loader.tensors)
    /\ LET tensor == ml.loader.tensors[ml.idx]
           read == load_data_for(tensor, ml.files, FALSE)
           quantize == Quantizes(tensor.name, tensor.ne)
           new_type == IF quantize THEN quantized_type(ml.ftype) ELSE tensor.type
           nelements == (tensor.ne[1] * tensor.ne[2]) % (UInt32Max + 1)
           new_size == IF quantize THEN ggml_quantize(nelements, new_type) ELSE tensor.size
           new_data == IF quantize THEN [ i \in 1 .. new_size |-> -new_type ] ELSE read.data
           w == write_tensor(ml.out, ml.pos, tensor, new_type, new_data, new_size)
       IN  IF read.abort # "none"
           THEN /\ aborted' = read.abort
                /\ ml' = [ ml EXCEPT !.pc = "aborted" ]
           ELSE IF quantize /\ tensor.type \notin {0, 1}
           THEN /\ ml' = [ ml EXCEPT !.pc = "done", !.ret = 1,
                                     !.error = "type unsupported for integer quantization" ]
                /\ UNCHANGED aborted
           ELSE IF w.abort # "none"
           THEN /\ aborted' = w.abort
                /\ ml' = [ ml EXCEPT !.pc = "aborted", !.out = w.f ]
           ELSE IF w.error # "none"
           THEN /\ ml' = [ ml EXCEPT !.pc = "done", !.ret = 1, !.error = w.error,
                                     !.out = w.f ]
                /\ UNCHANGED aborted
           ELSE /\ ml' = [ ml EXCEPT !.out = w.f, !.pos = w.pos, !.idx = @ + 1,
                              !.wrote = Append(@, [ name |-> tensor.name, ne |-> tensor.ne,
                                                    type |-> new_type, off |-> w.off,
                                                    size |-> new_size, data |-> new_data,
                                                    quantized |-> quantize,
                                                    org_type |-> tensor.type,
                                                    org_data |-> read.data ]) ]
                /\ UNCHANGED aborted
    /\ UNCHANGED <<ctx, blob, ret, hist, tk, ld, ev>>

\* the loop is over: llama_model_quantize returns 0
QuantizeReturn ==
    /\ ml.pc = "loop"
    /\ ml.idx > Len(ml.loader.tensors)
    /\ ml' = [ ml EXCEPT !.pc = "done", !.ret = 0 ]
    /\ UNCHANGED <<ctx, blob, ret, aborted, hist, tk, ld, ev>>

\* a file loader is constructed on the file the quantizer saved
Reread ==
    /\ ml.pc = "done"
    /\ ml.ret = 0
    /\ ml' = [ ml EXCEPT !.pc = "reread", !.reread = llama_file_loader(ml.out, 0, <<>>) ]
    /\ UNCHANGED <<ctx, blob, ret, aborted, hist, tk, ld, ev>>

NextQuant ==
    \/ QuantizeBegin
    \/ QuantizeTensor
    \/ QuantizeReturn
    \/ Reread

SpecQuant == InitQuant /\ [][NextQuant]_vars

(***************************************************************************)
(* Claims about the saver and the quantizer, checked under SpecQuant.      *)
(***************************************************************************)

\* C11: the saver places every tensor payload at an offset that is a multiple
\* of 32, whatever the names and payload sizes before it; a loader records for
\* every tensor of a GGJT file a file_off that is a multiple of 32; and the
\* loader that reads the saved file finds the tensors the saver wrote, each
\* with a file_off equal to the offset at which the saver wrote its payload.
C11_PayloadsAligned ==
    ml.pc \in {"loop", "done", "aborted", "reread"} =>
        /\ \A i \in 1 .. Len(ml.wrote) : ml.wrote[i].off % 32 = 0
        /\ (ml.loader.error = "none" /\ ml.loader.file_version = "GGJT_V1") =>
              \A i \in 1 .. Len(ml.loader.tensors) :
                 \A k \in 1 .. Len(ml.loader.tensors[i].shards) :
                    ml.loader.tensors[i].shards[k].file_off % 32 = 0
        /\ ml.pc = "reread" =>
              /\ ml.reread.error = "none"
              /\ ml.reread.file_version = "GGJT_V1"
              /\ Len(ml.reread.tensors) = Len(ml.wrote)
              /\ \A i \in 1 .. Len(ml.wrote) :
                    /\ ml.reread.tensors[i].name = ml.wrote[i].name
                    /\ Len(ml.reread.tensors[i].shards) = 1
                    /\ ml.reread.tensors[i].shards[1].file_off = ml.wrote[i].off
                    /\ ml.reread.tensors[i].shards[1].size = ml.wrote[i].size
                    /\ ml.reread.tensors[i].shards[1].file_off % 32 = 0

\* C11's case: three tensors with names of different lengths were saved, one
\* with a payload that is no multiple of 32 bytes, and the file was read back.
C11_Witness ==
    /\ ml.pc = "reread"
    /\ Len(ml.wrote) = 3
    /\ ml.wrote[2].size % 32 # 0
    /\ Len(ml.wrote[2].name) % 32 # Len(ml.wrote[3].name) % 32
    /\ ml.reread.tensors[3].shards[1].file_off = ml.wrote[3].off

\* C15: the quantizer converts a tensor to the target quantized dtype if and
\* only if its name ends with "weight" and its shape is 2-D, whatever the
\* length of the name; every other tensor is written with its original dtype
\* and its original bytes.
C15_QuantizeIffWeight2D ==
    ml.pc \in {"loop", "done", "aborted", "reread"} =>
        \A i \in 1 .. Len(ml.wrote) :
           LET w == ml.wrote[i]
               ends_with_weight ==
                   /\ Len(w.name) >= 6
                   /\ SubSeq(w.name, Len(w.name) - 5, Len(w.name)) = Lit.weight
           IN  IF ends_with_weight /\ Len(w.ne) = 2
               THEN w.quantized /\ w.type = quantized_type(ml.ftype)
               ELSE ~w.quantized /\ w.type = w.org_type /\ w.data = w.org_data

MaxShards == 3

\* the operands tried for a type of maximum max
MulOperands(max) == (0 .. UInt32Max) \cup { max \div 2, (max \div 2) + 1, max - 1, max }

InitMul ==
    /\ \E max \in {UInt32Max, SizeMax} :
       \E a \in MulOperands(max), b \in MulOperands(max) :
          ml = [ pc |-> "operands", a |-> a, b |-> b, max |-> max, type |-> 0,
                 out |-> [ ok |-> TRUE, val |-> 0 ] ]
    /\ NoSessions

\* checked_mul<uint32_t>(a, b) or checked_mul<size_t>(a, b)
CheckedMul ==
    /\ ml.pc = "operands"
    /\ ml' = [ ml EXCEPT !.pc = "mul", !.out = checked_mul(ml.a, ml.b, ml.max) ]
    /\ UNCHANGED <<ctx, blob, ret, aborted, hist, tk, ld, ev>>

\* llama_calc_tensor_size({a, b}, type)
CalcTensorSize ==
    /\ ml.pc = "operands"
    /\ ml.max = SizeMax /\ ml.a <= UInt32Max /\ ml.b <= UInt32Max
    /\ \E type \in 0 .. 3 :
          ml' = [ ml EXCEPT !.pc = "size", !.type = type,
                            !.out = llama_calc_tensor_size(<<ml.a, ml.b>>, type) ]
    /\ UNCHANGED <<ctx, blob, ret, aborted, hist, tk, ld, ev>>

\* calc_all on b shards of shape [a, 1] (split by columns) or [1, a] (by rows)
CalcNe ==
    /\ ml.pc = "operands"
    /\ ml.max = UInt32Max /\ ml.b \in 2 .. MaxShards
    /\ \E by_columns \in BOOLEAN :
          LET shard == [ ne |-> IF by_columns THEN <<ml.a, 1>> ELSE <<1, ml.a>>, type |-> 1,
                         size |-> 2 * ml.a, file_idx |-> 0, file_off |-> 0 ]
              lt == calc_all(IF by_columns THEN Lit.tok_embeddings ELSE Lit.output,
                             [ k \in 1 .. ml.b |-> [ shard EXCEPT !.file_idx = k - 1 ] ])
          IN  ml' = [ ml EXCEPT !.pc = "ne", !.type = IF by_columns THEN 1 ELSE 2,
                         !.out = IF lt.error = "none"
                                 THEN [ ok |-> TRUE, val |-> lt.ne[IF by_columns THEN 1 ELSE 2] ]
                                 ELSE [ ok |-> FALSE, val |-> 0 ] ]
    /\ UNCHANGED <<ctx, blob, ret, aborted, hist, tk, ld, ev>>

NextMul ==
    \/ CheckedMul
    \/ CalcTensorSize
    \/ CalcNe

SpecMul == InitMul /\ [][NextMul]_vars

\* C18: checked_mul throws exactly when the product of its operands exceeds
\* the maximum of its type and otherwise returns the product;
\* llama_calc_tensor_size returns type_size * ne[0] * ne[1] / block_size or
\* throws, and throws exactly when a partial product exceeds the maximum of
\* size_t; the reconciled dimension of a split tensor is the shard's dimension
\* times the number of shards, or calc_ne throws, exactly when that product
\* exceeds the maximum of uint32_t.
C18_NoSilentWrap ==
    /\ ml.pc = "mul" =>
          /\ ml.out.ok <=> ml.a * ml.b <= ml.max
          /\ ml.out.ok => ml.out.val = ml.a * ml.b
    /\ ml.pc = "size" =>
          /\ ml.out.ok <=> /\ ggml_type_size(ml.type) * ml.a <= SizeMax
                           /\ ggml_type_size(ml.type) * ml.a * ml.b <= SizeMax
          /\ ml.out.ok =>
                ml.out.val = (ggml_type_size(ml.type) * ml.a * ml.b) \div ggml_blck_size(ml.type)
    /\ ml.pc = "ne" =>
          /\ ml.out.ok <=> ml.a * ml.b <= UInt32Max
          /\ ml.out.ok => ml.out.val = ml.a * ml.b

\* C18's case: a product of two uint32_t exceeded the maximum, wrapped to a
\* value that is smaller than neither operand, and checked_mul threw.
C18_Witness ==
    /\ ml.pc = "mul"
    /\ ml.max = UInt32Max
    /\ ~ml.out.ok
    /\ ml.out.val >= ml.a /\ ml.out.val >= ml.b

(***************************************************************************)
(* One tensor name held by the files base, base.1, ...: the shards the     *)
(* file loaders collect for it, calc_all on them, load_data_for.           *)
(***************************************************************************)
ShardNames ==
    { Lit.tok_embeddings, Lit.norm, Lit.output,
      <<108, 48>> \o Lit.attention_wo,
      <<108, 48>> \o Lit.feed_forward_w2,
      <<108, 48>> \o Lit.attention_wo \o <<46, 120>>,
      <<120, 46>> \o Lit.tok_embeddings_dot }

ShardShapes == { <<3>>, <<1, 1>>, <<2, 2>>, <<16, 2>>, <<32, 1>>, <<32, 3>>, <<128, 1>> }

\* the loop of llama_model_loader's constructor over the files from k on
RECURSIVE LoadParts(_, _, _)
LoadParts(files, k, tensors) ==
    IF k > Len(files) THEN tensors
    ELSE LoadParts(files, k + 1, llama_file_loader(files[k], k - 1, tensors).tensors)

InitShard ==
    /\ \E name \in ShardNames, ne \in ShardShapes, type \in 0 .. 3, n \in 1 .. MaxShards,
          words \in { <<MagicGgml>>, <<MagicGgjt, 1>> }, skew \in 0 .. 1 :
          LET rec(p) == [ n_dims |-> Len(ne), name |-> name, type |-> type,
                          ne |-> IF p = n /\ n > 1 THEN [ ne EXCEPT ![1] = @ + skew ] ELSE ne ]
              files == [ p \in 1 .. n |->
                           FileOf([ words |-> words,
                                    hparams |-> [ n_vocab |-> 0, n_embd |-> 32, n_mult |-> 1,
                                                  n_head |-> 1, n_layer |-> 32, n_rot |-> 32,
                                                  ftype |-> 1 ],
                                    vocab |-> <<>>, recs |-> <<rec(p)>> ], p - 1) ]
          IN  ml = [ pc |-> "map", files |-> files, name |-> name,
                     shards |-> LoadParts(files, 1, <<>>)[1].shards,
                     lt |-> [ error |-> "not calculated" ], use_mmap |-> FALSE,
                     data |-> <<>>, abort |-> "none" ]
    /\ NoSessions

\* lt.calc_all() at the end of the constructor
CalcAll ==
    /\ ml.pc = "map"
    /\ ml' = [ ml EXCEPT !.pc = "calc", !.lt = calc_all(ml.name, ml.shards) ]
    /\ UNCHANGED <<ctx, blob, ret, aborted, hist, tk, ld, ev>>

\* load_data_for(lt), memory-mapped only when every shard is 4-byte aligned
LoadDataFor ==
    /\ ml.pc = "calc"
    /\ ml.lt.error = "none"
    /\ \E use_mmap \in BOOLEAN :
          /\ use_mmap => \A k \in 1 .. Len(ml.shards) : ml.shards[k].file_off % 4 = 0
          /\ LET r == load_data_for(ml.lt, ml.files, use_mmap)
             IN  ml' = [ ml EXCEPT !.pc = "loaded", !.use_mmap = use_mmap,
                                   !.data = r.data, !.abort = r.abort ]
    /\ UNCHANGED <<ctx, blob, ret, aborted, hist, tk, ld, ev>>

NextShard ==
    \/ CalcAll
    \/ LoadDataFor

SpecShard == InitShard /\ [][NextShard]_vars

\* name contains pat
Contains(name, pat) ==
    \E i \in 1 .. Len(name) - Len(pat) + 1 : SubSeq(name, i, i + Len(pat) - 1) = pat

\* name ends with pat
EndsWith(name, pat) ==
    Len(name) >= Len(pat) /\ SubSeq(name, Len(name) - Len(pat) + 1, Len(name)) = pat

\* C13 (as amended): a tensor is NONE when it is 1-D or has a single shard;
\* otherwise it is BY_COLUMNS exactly when its name starts with
\* "tok_embeddings." or contains ".attention.wo.weight" or
\* ".feed_forward.w2.weight" anywhere, and BY_ROWS for every other name.
C13_SplitTypeByContains ==
    (ml.pc \in {"calc", "loaded"} /\ ml.lt.error = "none") =>
        ml.lt.split_type =
            IF Len(ml.shards[1].ne) = 1 \/ Len(ml.shards) = 1 THEN "NONE"
            ELSE IF \/ StartsWith(ml.name, Lit.tok_embeddings_dot)
                    \/ Contains(ml.name, Lit.attention_wo)
                    \/ Contains(ml.name, Lit.feed_forward_w2)
                 THEN "BY_COLUMNS"
            ELSE "BY_ROWS"

\* C13 as stated: BY_COLUMNS exactly when the name starts with
\* "tok_embeddings." or ends with ".attention.wo.weight" or
\* ".feed_forward.w2.weight".
C13_SplitTypeBySuffix ==
    (ml.pc \in {"calc", "loaded"} /\ ml.lt.error = "none") =>
        ml.lt.split_type =
            IF Len(ml.shards[1].ne) = 1 \/ Len(ml.shards) = 1 THEN "NONE"
            ELSE IF \/ StartsWith(ml.name, Lit.tok_embeddings_dot)
                    \/ EndsWith(ml.name, Lit.attention_wo)
                    \/ EndsWith(ml.name, Lit.feed_forward_w2)
                 THEN "BY_COLUMNS"
            ELSE "BY_ROWS"

\* C13's case: calc_split_type ran on a 2-D tensor of several shards whose
\* name holds ".attention.wo.weight" before its end.
C13_Witness ==
    /\ ml.pc = "calc"
    /\ ml.lt.error = "none"
    /\ Len(ml.shards) >= 2
    /\ Contains(ml.name, Lit.attention_wo)
    /\ ~EndsWith(ml.name, Lit.attention_wo)
    /\ ml.lt.split_type = "BY_COLUMNS"

\* what C14 says of a tensor of shards [c, r] that load_data_for assembled by
\* columns: the shape, the assertion, the size and every destination row
AssembledByColumns ==
    LET S == Len(ml.shards)
        c == ml.shards[1].ne[1]
        r == ml.shards[1].ne[2]
        type == ml.shards[1].type
        row == (ggml_type_size(type) * c) \div ggml_blck_size(type)
    IN  /\ ml.lt.ne = <<c * S, r>>
        /\ ml.abort = "none"
        /\ Len(ml.data) = (ggml_type_size(type) * c * S * r) \div ggml_blck_size(type)
        /\ \A i \in 0 .. r - 1 : \A k \in 1 .. S :
              SubSeq(ml.data, (i * S + k - 1) * row + 1, (i * S + k) * row)
                  = SubSeq(PayloadOf(k - 1, 1, ml.shards[k].size), i * row + 1, (i + 1) * row)

ModelType(n_layer) ==
    CASE n_layer = 32 -> "MODEL_7B" [] n_layer = 40 -> "MODEL_13B"
      [] n_layer = 60 -> "MODEL_30B" [] n_layer = 80 -> "MODEL_65B"
      [] OTHER -> "MODEL_UNKNOWN"

\* n_ff, in uint32_t arithmetic
FeedForwardSize(hp) ==
    LET W == UInt32Max + 1
        a == (2 * ((4 * hp.n_embd) % W)) % W
        b == ((a \div 3) + hp.n_mult - 1) % W
    IN  ((b \div hp.n_mult) * hp.n_mult) % W

\* the names and shapes that llama_model_load_internal requests, in its order
ExpectedTensors(hp) ==
    [ k \in 1 .. 3 + 9 * hp.n_layer |->
        IF k = 1 THEN [ name |-> Lit.tok_embeddings, ne |-> <<hp.n_embd, hp.n_vocab>> ]
        ELSE IF k = 2 THEN [ name |-> Lit.norm, ne |-> <<hp.n_embd>> ]
        ELSE IF k = 3 THEN [ name |-> Lit.output, ne |-> <<hp.n_embd, hp.n_vocab>> ]
        ELSE LET layers_i == Lit.layers_dot \o Digits((k - 4) \div 9)
                 j == (k - 4) % 9
                 n_ff == FeedForwardSize(hp)
             IN  CASE j = 0 -> [ name |-> layers_i \o Lit.attention_norm, ne |-> <<hp.n_embd>> ]
                   [] j = 1 -> [ name |-> layers_i \o Lit.attention_wq,
                                 ne |-> <<hp.n_embd, hp.n_embd>> ]
                   [] j = 2 -> [ name |-> layers_i \o Lit.attention_wk,
                                 ne |-> <<hp.n_embd, hp.n_embd>> ]
                   [] j = 3 -> [ name |-> layers_i \o Lit.attention_wv,
                                 ne |-> <<hp.n_embd, hp.n_embd>> ]
                   [] j = 4 -> [ name |-> layers_i \o Lit.attention_wo,
                                 ne |-> <<hp.n_embd, hp.n_embd>> ]
                   [] j = 5 -> [ name |-> layers_i \o Lit.ffn_norm, ne |-> <<hp.n_embd>> ]
                   [] j = 6 -> [ name |-> layers_i \o Lit.feed_forward_w1,
                                 ne |-> <<hp.n_embd, n_ff>> ]
                   [] j = 7 -> [ name |-> layers_i \o Lit.feed_forward_w2,
                                 ne |-> <<n_ff, hp.n_embd>> ]
                   [] OTHER -> [ name |-> layers_i \o Lit.feed_forward_w3,
                                 ne |-> <<hp.n_embd, n_ff>> ] ]

\* faulty variant: only tensors created beyond those of the file are an error
done_getting_tensors_lenient(num_ggml_tensors_created, n_tensors) ==
    IF num_ggml_tensors_created > n_tensors
    THEN "file contained more tensors than expected" ELSE "none"

\* llama_model_loader::done_getting_tensors: the error thrown
done_getting_tensors(num_ggml_tensors_created, n_tensors) ==
    IF num_ggml_tensors_created # n_tensors
    THEN "file contained more tensors than expected" ELSE "none"

\* the get_tensor calls and done_getting_tensors on a model loader: the error
\* thrown and the ggml tensors created
get_tensors(loader) ==
    LET exp == ExpectedTensors(loader.hparams)
        lts == loader.tensors
        at == [ k \in 1 .. Len(exp) |-> { i \in 1 .. Len(lts) : lts[i].name = exp[k].name } ]
        bad == { k \in 1 .. Len(exp) :
                   \/ at[k] = {}
                   \/ lts[CHOOSE i \in at[k] : TRUE].ne # exp[k].ne }
        first == CHOOSE k \in bad : \A j \in bad : k <= j
    IN  [ error |-> IF bad # {}
                    THEN IF at[first] = {} THEN "is missing from model" ELSE "has wrong shape"
                    ELSE done_getting_tensors(Len(exp), Len(lts)),
          created |-> [ i \in 1 .. Len(lts) |->
                          [ name |-> lts[i].name, type |-> lts[i].type, ne |-> lts[i].ne ] ] ]

\* the records a part of a model of these hyperparameters holds when it is
\* split over parts files: 1-D tensors whole and F32, 2-D tensors F16 and
\* divided by columns or by rows
PartRecords(hp, parts) ==
    LET exp == ExpectedTensors(hp)
    IN  [ k \in 1 .. Len(exp) |->
            LET ne == exp[k].ne
                by_columns == k = 1 \/ (k > 3 /\ (k - 4) % 9 \in {4, 7})
            IN  [ n_dims |-> Len(ne), name |-> exp[k].name,
                  type |-> IF Len(ne) = 1 THEN 0 ELSE 1,
                  ne |-> IF Len(ne) = 1 THEN ne
                         ELSE IF by_columns THEN <<ne[1] \div parts, ne[2]>>
                         ELSE <<ne[1], ne[2] \div parts>> ] ]

\* a tensor that no layout names
ExtraRecord == [ n_dims |-> 1, name |-> <<101, 120, 116, 114, 97>>, type |-> 0, ne |-> <<2>> ]

\* the records of part `part` (of `parts`) after a fault of kind pt.kind at
\* record pt.k
FaultyRecords(recs, pt, part, parts) ==
    CASE pt.kind = "drop" -> SubSeq(recs, 1, pt.k - 1) \o SubSeq(recs, pt.k + 1, Len(recs))
      [] pt.kind = "extra" -> Append(recs, ExtraRecord)
      [] pt.kind = "dup" -> Append(recs, recs[pt.k])
      [] pt.kind = "shape" -> [ recs EXCEPT ![pt.k].ne[1] = @ + 1 ]
      [] pt.kind = "type" -> [ recs EXCEPT ![pt.k].type = 9 ]
      [] pt.kind = "dims" -> [ recs EXCEPT ![pt.k].n_dims = 3, ![pt.k].ne = <<1, 1, 1>> ]
      [] pt.kind = "skew_shape" /\ part = parts -> [ recs EXCEPT ![pt.k].ne[1] = @ + 1 ]
      [] pt.kind = "skew_type" /\ part = parts -> [ recs EXCEPT ![pt.k].type = 1 - @ ]
      [] OTHER -> recs

Faults ==
    { [ kind |-> "none", k |-> 0 ], [ kind |-> "extra", k |-> 0 ],
      [ kind |-> "magic", k |-> 0 ], [ kind |-> "skew_hparams", k |-> 0 ],
      [ kind |-> "one_file", k |-> 0 ] }
    \cup { [ kind |-> kind, k |-> k ] : kind \in {"drop", "shape"}, k \in {1, 3, 8} }
    \cup { [ kind |-> kind, k |-> k ] :
             kind \in {"dup", "type", "dims", "skew_shape", "skew_type"}, k \in {2, 6} }

\* the files of a model of n_layer layers in parts parts with fault pt
ModelFiles(n_layer, parts, words, pt) ==
    LET hp == [ n_vocab |-> 2, n_embd |-> 2, n_mult |-> 2, n_head |-> 1,
                n_layer |-> n_layer, n_rot |-> 2, ftype |-> 1 ]
    IN  [ p \in 1 .. (IF pt.kind = "one_file" THEN 1 ELSE parts) |->
            FileOf([ words |-> IF pt.kind = "magic" THEN <<MagicGgjt, 7>> ELSE words,
                     hparams |-> IF pt.kind = "skew_hparams" /\ p = parts
                                 THEN [ hp EXCEPT !.n_head = 2 ] ELSE hp,
                     vocab |-> <<[ tok |-> <<97>>, score |-> 0 ], [ tok |-> <<98>>, score |-> 1 ]>>,
                     recs |-> FaultyRecords(PartRecords(hp, parts), pt, p, parts) ], p - 1) ]

ModelLayers == {1, 32}

InitModel ==
    /\ \E n_layer \in ModelLayers, parts \in 1 .. 2, pt \in Faults,
          words \in { <<MagicGgml>>, <<MagicGgjt, 1>> },
          use_mmap \in BOOLEAN, vocab_only \in BOOLEAN :
          ml = [ pc |-> "call", n_layer |-> n_layer, parts |-> parts, fault |-> pt,
                 files |-> ModelFiles(n_layer, parts, words, pt),
                 use_mmap |-> use_mmap, vocab_only |-> vocab_only,
                 loader |-> [ error |-> "not read" ], created |-> <<>>, data |-> <<>>,
                 error |-> "none", abort |-> "none", ret |-> "none" ]
    /\ NoSessions

\* llama_init_from_file up to the weights: the model loader, the switch on
\* n_layer, the printed summary with llama_model_type_name, the return for
\* vocab_only; a thrown error makes llama_model_load return false and
\* llama_init_from_file return nullptr
LoadBegin ==
    /\ ml.pc = "call"
    /\ LET loader == llama_model_loader(ml.files, ml.use_mmap, ml.vocab_only)
           asserts == loader.error = "none"
                        /\ ModelType(loader.hparams.n_layer) = "MODEL_UNKNOWN"
       IN  /\ ml' = IF loader.error # "none"
                    THEN [ ml EXCEPT !.pc = "done", !.error = loader.error, !.ret = "null" ]
                    ELSE IF asserts
                    THEN [ ml EXCEPT !.pc = "done", !.loader = loader,
                                     !.abort = "LLAMA_ASSERT(false)" ]
                    ELSE IF ml.vocab_only
                    THEN [ ml EXCEPT !.pc = "done", !.loader = loader, !.ret = "session" ]
                    ELSE [ ml EXCEPT !.pc = "layout", !.loader = loader ]
           /\ aborted' = IF asserts THEN "LLAMA_ASSERT(false)" ELSE aborted
    /\ UNCHANGED <<ctx, blob, ret, hist, tk, ld, ev>>

\* the get_tensor calls of the layout and done_getting_tensors
GetTensors ==
    /\ ml.pc = "layout"
    /\ LET r == get_tensors(ml.loader)
       IN  ml' = IF r.error # "none"
                 THEN [ ml EXCEPT !.pc = "done", !.error = r.error, !.ret = "null" ]
                 ELSE [ ml EXCEPT !.pc = "created", !.created = r.created ]
    /\ UNCHANGED <<ctx, blob, ret, aborted, hist, tk, ld, ev>>

\* load_all_data, then the rest of llama_init_from_file
LoadAllData ==
    /\ ml.pc = "created"
    /\ LET lts == ml.loader.tensors
           r == [ i \in 1 .. Len(lts) |-> load_data_for(lts[i], ml.files, ml.loader.use_mmap) ]
           bad == { i \in 1 .. Len(lts) : r[i].abort # "none" }
           abort == IF bad = {} THEN "none"
                    ELSE r[CHOOSE i \in bad : \A j \in bad : i <= j].abort
       IN  /\ ml' = IF bad # {}
                    THEN [ ml EXCEPT !.pc = "done", !.abort = "LLAMA_ASSERT(" \o abort \o ")" ]
                    ELSE [ ml EXCEPT !.pc = "done", !.ret = "session",
                                     !.data = [ i \in 1 .. Len(lts) |-> r[i].data ] ]
           /\ aborted' = IF bad # {} THEN "LLAMA_ASSERT(" \o abort \o ")" ELSE aborted
    /\ UNCHANGED <<ctx, blob, ret, hist, tk, ld, ev>>

NextModel ==
    \/ LoadBegin
    \/ GetTensors
    \/ LoadAllData

SpecModel == InitModel /\ [][NextModel]_vars

\* the records that part p of the files of the run was written from
RecordsOfPart(p) ==
    FaultyRecords(PartRecords(ml.loader.hparams, ml.parts), ml.fault, p, ml.parts)

\* the names in the files are exactly those of the layout, and every
\* reconciled shape is the expected shape
LayoutMatches ==
    LET exp == ExpectedTensors(ml.loader.hparams)
        lts == ml.loader.tensors
    IN  /\ { RecordsOfPart(p)[i].name : p \in 1 .. Len(ml.files),
                                        i \in 1 .. Len(RecordsOfPart(1)) }
              = { exp[k].name : k \in 1 .. Len(exp) }
        /\ \A k \in 1 .. Len(exp) : \A i \in 1 .. Len(lts) :
              lts[i].name = exp[k].name => lts[i].ne = exp[k].ne

\* every tensor created has the reconciled shape and the dtype of its record
DescriptorsMatch ==
    LET exp == ExpectedTensors(ml.loader.hparams)
        recs == RecordsOfPart(1)
    IN  /\ Len(ml.created) = Len(exp)
        /\ \A i \in 1 .. Len(ml.created) :
              /\ \E k \in 1 .. Len(exp) :
                    ml.created[i].name = exp[k].name /\ ml.created[i].ne = exp[k].ne
              /\ \E j \in 1 .. Len(recs) :
                    recs[j].name = ml.created[i].name /\ recs[j].type = ml.created[i].type

NamedOnce ==
    LET recs == [ p \in 1 .. Len(ml.files) |-> RecordsOfPart(p) ]
    IN  SumSeq([ p \in 1 .. Len(ml.files) |-> Len(recs[p]) ])
        = Cardinality(UNION { { recs[p][i].name : i \in 1 .. Len(recs[p]) } :
                                p \in 1 .. Len(ml.files) })

\* every tensor of the loader has one shard, and load_data_for's assertion held
SingleShards ==
    /\ \A i \in 1 .. Len(ml.loader.tensors) : Len(ml.loader.tensors[i].shards) = 1
    /\ ml.abort # "LLAMA_ASSERT(lt.shards.size() == 1)"

\* the loader uses mmap exactly when it was requested and every shard offset
\* is 4-byte aligned (llama_mmap::SUPPORTED being true)
MmapDecision ==
    ml.loader.use_mmap
    <=> (ml.use_mmap /\ \A i \in 1 .. Len(ml.loader.tensors) :
                            \A k \in 1 .. Len(ml.loader.tensors[i].shards) :
                                ml.loader.tensors[i].shards[k].file_off % 4 = 0)

C17_LoadFailureReturnsNull ==
    /\ ml.abort = "none"
    /\ (ml.pc = "done" /\ ml.error # "none") => ml.ret = "null"
    /\ (ml.pc = "done" /\ ml.n_layer \notin {32, 40, 60, 80}) => ml.ret = "null"

(***************************************************************************)
(* The graph that one llama_eval_internal builds, block by block: which    *)
(* scratch buffer is selected and where each intermediate is allocated.    *)
(* ev.buf is the buffer that ctx0 allocates tensor data in (-1: the        *)
(* context's own memory), ev.offs the amount allocated in it so far.       *)
(***************************************************************************)
MaxEvLayers == 3
MaxBatch == 4

\* faulty variant: the body of use_buf without LLAMA_USE_SCRATCH
use_buf_no_scratch(e, i) == e

\* llama_context::use_buf(ctx0, i): ggml_set_scratch returns the amount
\* allocated in the scratch buffer that was selected until now
use_buf(e, i) ==
    LET last_size == IF e.buf = -1 THEN 0 ELSE e.offs
    IN  [ e EXCEPT !.buf = i, !.offs = 0,
                   !.buf_max_size = IF e.buf_last >= 0
                                    THEN [ @ EXCEPT ![e.buf_last] = Max(@, last_size) ]
                                    ELSE @,
                   !.buf_last = i ]

\* the ggml operations of a block that allocate a result, in the order of the
\* calls: each allocates its data where ev.buf says
RECURSIVE NewTensors(_, _, _)
NewTensors(e, block, ops) ==
    IF ops = <<>> THEN e
    ELSE NewTensors([ e EXCEPT !.allocs = Append(@, [ block |-> block, il |-> e.il,
                                                       op |-> Head(ops), buf |-> e.buf ]),
                               !.offs = IF e.buf = -1 THEN @ ELSE @ + e.N ],
                    block, Tail(ops))

InitScratch ==
    /\ \E n_layer \in 1 .. MaxEvLayers, N \in 1 .. MaxBatch, first \in BOOLEAN :
          ev = [ pc |-> "start", n_layer |-> n_layer, N |-> N, il |-> 0,
                 buf |-> -1, offs |-> 0,
                 buf_last |-> IF first THEN 0 ELSE -1,
                 buf_max_size |-> IF first THEN [ i \in 0 .. 1 |-> 0 ]
                                  ELSE [ i \in 0 .. 1 |-> 15 - 5 * i ],
                 allocs |-> <<>> ]
    /\ ctx = [ c \in Sessions |-> NoSession ]
    /\ blob = NoBlob
    /\ ret = Ret("none", "s", 0, FALSE, 0)
    /\ aborted = "none"
    /\ hist = [ phase |-> "graph", evald |-> 0, disciplined |-> TRUE, t_restored |-> FALSE ]
    /\ tk = TkIdle
    /\ ld = LdIdle
    /\ ml = MlIdle

\* ggml_init of ctx0, the token tensor and the embedding rows
GraphBegin ==
    /\ ev.pc = "start"
    /\ ev' = [ NewTensors(ev, "input", <<"new_tensor_1d", "get_rows">>) EXCEPT !.pc = "attention" ]
    /\ UNCHANGED <<ctx, blob, ret, aborted, hist, tk, ld, ml>>

\* layer il from use_buf(ctx0, 0) to the projection by wo
AttentionBlock ==
    /\ ev.pc = "attention"
    /\ ev' = [ NewTensors(use_buf(ev, 0), "attention",
                          <<"rms_norm", "repeat", "mul", "mul_mat_wq", "rope_q", "mul_mat_wk",
                            "rope_k", "mul_mat_wv", "mul_mat_kq", "scale", "diag_mask_inf",
                            "soft_max", "mul_mat_kqv", "cpy", "mul_mat_wo">>)
                 EXCEPT !.pc = "ffn" ]
    /\ UNCHANGED <<ctx, blob, ret, aborted, hist, tk, ld, ml>>

\* layer il from use_buf(ctx0, 1) to the input of the next layer
FeedForwardBlock ==
    /\ ev.pc = "ffn"
    /\ ev' = [ NewTensors(use_buf(ev, 1), "ffn",
                          <<"add", "rms_norm", "repeat", "mul", "mul_mat_w3", "mul_mat_w1",
                            "silu", "mul", "mul_mat_w2", "add">>)
                 EXCEPT !.il = @ + 1,
                        !.pc = IF ev.il + 1 < ev.n_layer THEN "attention" ELSE "final" ]
    /\ UNCHANGED <<ctx, blob, ret, aborted, hist, tk, ld, ml>>

\* after the loop: use_buf(ctx0, 0), the final norm, lm_head, use_buf(ctx0, -1)
FinalNormAndOutput ==
    /\ ev.pc = "final"
    /\ ev' = [ use_buf(NewTensors(NewTensors(use_buf(ev, 0), "norm",
                                             <<"rms_norm", "repeat", "mul">>),
                                  "lm_head", <<"mul_mat_output">>), -1)
                 EXCEPT !.pc = "graph" ]
    /\ UNCHANGED <<ctx, blob, ret, aborted, hist, tk, ld, ml>>

\* ggml_build_forward_expand, ggml_graph_compute, ggml_free
GraphCompute ==
    /\ ev.pc = "graph"
    /\ ev' = [ ev EXCEPT !.pc = "done" ]
    /\ UNCHANGED <<ctx, blob, ret, aborted, hist, tk, ld, ml>>

NextScratch ==
    \/ GraphBegin
    \/ AttentionBlock
    \/ FeedForwardBlock
    \/ FinalNormAndOutput
    \/ GraphCompute

SpecScratch == InitScratch /\ [][NextScratch]_vars

\* the intermediates of the layers are where C19 says: attention in scratch
\* buffer 0, FFN in scratch buffer 1
LayersUseBothBuffers ==
    \A a \in 1 .. Len(ev.allocs) :
        /\ ev.allocs[a].block = "attention" => ev.allocs[a].buf = 0
        /\ ev.allocs[a].block = "ffn" => ev.allocs[a].buf = 1

\* C19 (as amended): for each layer buffer 0 is selected for the attention
\* block and buffer 1 for the FFN block; after the last layer buffer 0 is
\* selected again, so the final norm and the output projection allocate
\* their intermediates in scratch buffer 0; -1 (no scratch) is selected only
\* after them, for building and computing the graph.
C19_FinalNormInScratch0 ==
    /\ ev.pc # "start" => LayersUseBothBuffers
    /\ ev.pc \in {"graph", "done"} =>
          /\ \A a \in 1 .. Len(ev.allocs) :
                ev.allocs[a].block \in {"norm", "lm_head"} => ev.allocs[a].buf = 0
          /\ ev.buf = -1 /\ ev.buf_last = -1

\* C19 as stated: after the last layer -1 is selected for the final norm and
\* the output projection, which allocate nothing in scratch buffer 0 or 1.
C19_FinalNormNoScratch ==
    /\ ev.pc # "start" => LayersUseBothBuffers
    /\ ev.pc \in {"graph", "done"} =>
          \A a \in 1 .. Len(ev.allocs) :
              ev.allocs[a].block \in {"norm", "lm_head"} => ev.allocs[a].buf = -1

\* C19's case: an eval of several layers built its whole graph.
C19_Witness ==
    /\ ev.pc = "done"
    /\ ev.n_layer >= 2
    /\ \E a \in 1 .. Len(ev.allocs) : ev.allocs[a].block = "lm_head"
    /\ \E a \in 1 .. Len(ev.allocs) : ev.allocs[a].block = "ffn" /\ ev.allocs[a].il = 1

(***************************************************************************)
(* llama_eval with any n_past and n_tokens.  Neither llama_eval nor        *)
(* llama_eval_internal compares n_past + N with n_ctx: the views k and v   *)
(* of a call past the context reach into the next row or layer of the      *)
(* cache and, in the last layer, past the end of the tensor.  The writes   *)
(* inside the tensors land where the offsets say; after the write past the *)
(* end the call either returns 0 with logits of any value or the process   *)
(* dies.                                                                   *)
(***************************************************************************)
EvalBeyondContext ==
    /\ aborted = "none"
    /\ hist.phase = "run"
    /\ ~ctx["s"].params.vocab_only
    /\ \E n_past \in 0 .. MaxNCtx, tokens \in TokenSeqs(2) \ {<<>>},
          crash \in BOOLEAN, l \in {-2, 2} :
          /\ n_past + Len(tokens) > ctx["s"].params.n_ctx
          /\ ctx' = [ ctx EXCEPT !["s"].kv_k = EvalK(ctx["s"], tokens, n_past),
                                 !["s"].kv_v = EvalV(ctx["s"], tokens, n_past),
                                 !["s"].logits =
                                     [ i \in 1 .. (IF ctx["s"].params.logits_all
                                                   THEN NVocab * Len(tokens) ELSE NVocab) |-> l ],
                                 !["s"].has_evaluated_once = ~crash ]
          /\ aborted' = IF crash THEN "SIGSEGV" ELSE "none"
          /\ ret' = Ret("eval", "s", 0, FALSE, 0)
          /\ hist' = [ hist EXCEPT !.disciplined = FALSE, !.evald = 0 ]
    /\ UNCHANGED <<blob, tk, ld, ml, ev>>

NextEvalAny ==
    \/ Eval
    \/ EvalBeyondContext

SpecEvalAny == Init /\ [][NextEvalAny]_vars

\* C20: a call of eval with n_past + n_tokens > n_ctx is rejected with an
\* error result and writes no element of the KV cache.
C20_OversizedEvalRejected ==
    [][ EvalBeyondContext =>
          /\ ret'.val # 0
          /\ aborted' = "none"
          /\ ctx'["s"].kv_k = ctx["s"].kv_k
          /\ ctx'["s"].kv_v = ctx["s"].kv_v ]_vars

(***************************************************************************)
(* The graph of llama_eval_internal node by node, for models of any shape: *)
(* the tensors of each layer with their sources, the order in which        *)
(* ggml_build_forward_expand puts them into gf.nodes, and what the nodes   *)
(* that touch kv_self.k and kv_self.v store and read when                  *)
(* ggml_graph_compute runs them in that order.  A view is the map from an  *)
(* element's index to its byte offset in the viewed tensor.  The value a   *)
(* copy stores names the eval, the layer, the position and the component.  *)
(***************************************************************************)
MaxCacheLayers == 2
MaxCacheCtx == 3
MaxEvals == 2

\* ggml_view_1d(ctx, a, ne0, offset), a of element size es
ggml_view_1d(es, ne0, offset) ==
    [ i \in (0 .. ne0 - 1) \X {0} \X {0} |-> offset + i[1] * es ]

\* ggml_view_2d(ctx, a, ne0, ne1, nb1, offset)
ggml_view_2d(es, ne0, ne1, nb1, offset) ==
    [ i \in (0 .. ne0 - 1) \X (0 .. ne1 - 1) \X {0} |-> offset + i[1] * es + i[2] * nb1 ]

\* ggml_view_3d(ctx, a, ne0, ne1, ne2, nb1, nb2, offset)
ggml_view_3d(es, ne0, ne1, ne2, nb1, nb2, offset) ==
    [ i \in (0 .. ne0 - 1) \X (0 .. ne1 - 1) \X (0 .. ne2 - 1) |->
        offset + i[1] * es + i[2] * nb1 + i[3] * nb2 ]

\* hparams.n_embd
EmbdOf(hp) == hp.n_head * hp.head_dim

\* struct ggml_tensor * k of layer il
KStoreView(hp, il, n_past, N) ==
    ggml_view_1d(hp.es, N * EmbdOf(hp), (hp.es * EmbdOf(hp)) * (il * hp.n_ctx + n_past))

\* faulty variant: the rows of v are N elements apart
VStoreViewDense(hp, il, n_past, N) ==
    ggml_view_2d(hp.es, N, EmbdOf(hp), N * hp.es,
                 (il * hp.n_ctx) * hp.es * EmbdOf(hp) + n_past * hp.es)

\* struct ggml_tensor * v of layer il
VStoreView(hp, il, n_past, N) ==
    ggml_view_2d(hp.es, N, EmbdOf(hp), hp.n_ctx * hp.es,
                 (il * hp.n_ctx) * hp.es * EmbdOf(hp) + n_past * hp.es)

\* the view of kv_self.k that K reshapes to [head_dim, n_head, n_past + N]
KLoadView(hp, il, n_past, N) ==
    ggml_view_1d(hp.es, (n_past + N) * EmbdOf(hp), il * hp.n_ctx * hp.es * EmbdOf(hp))

\* faulty variant: the strides of a row and of a head are exchanged
VLoadViewHeadsFirst(hp, il, n_past, N) ==
    ggml_view_3d(hp.es, n_past + N, hp.head_dim, hp.n_head,
                 (hp.n_ctx * hp.es * EmbdOf(hp)) \div hp.n_head, hp.n_ctx * hp.es,
                 il * hp.n_ctx * hp.es * EmbdOf(hp))

\* struct ggml_tensor * V of layer il
VLoadView(hp, il, n_past, N) ==
    ggml_view_3d(hp.es, n_past + N, hp.head_dim, hp.n_head,
                 hp.n_ctx * hp.es, (hp.n_ctx * hp.es * EmbdOf(hp)) \div hp.n_head,
                 il * hp.n_ctx * hp.es * EmbdOf(hp))

\* the tensors llama_eval_internal creates for a layer, in the order of the
\* calls, each with those of its sources src0, src1 that are no leaves of the
\* graph (the weights, kv_self.k, kv_self.v and the constants are leaves);
\* inpSA is the input of the layer
LayerTensors ==
    << [ t |-> "rms_norm", src |-> <<"inpSA">> ],
       [ t |-> "repeat", src |-> <<"rms_norm">> ],
       [ t |-> "cur", src |-> <<"repeat", "rms_norm">> ],
       [ t |-> "mul_mat_wq", src |-> <<"cur">> ],
       [ t |-> "reshape_q", src |-> <<"mul_mat_wq">> ],
       [ t |-> "Qcur", src |-> <<"reshape_q">> ],
       [ t |-> "mul_mat_wk", src |-> <<"cur">> ],
       [ t |-> "reshape_k", src |-> <<"mul_mat_wk">> ],
       [ t |-> "Kcur", src |-> <<"reshape_k">> ],
       [ t |-> "mul_mat_wv", src |-> <<"cur">> ],
       [ t |-> "reshape_v", src |-> <<"mul_mat_wv">> ],
       [ t |-> "Vcur", src |-> <<"reshape_v">> ],
       [ t |-> "k", src |-> <<>> ],
       [ t |-> "v", src |-> <<>> ],
       [ t |-> "cpy_k", src |-> <<"Kcur", "k">> ],
       [ t |-> "cpy_v", src |-> <<"Vcur", "v">> ],
       [ t |-> "Q", src |-> <<"Qcur">> ],
       [ t |-> "K_view", src |-> <<>> ],
       [ t |-> "K_reshape", src |-> <<"K_view">> ],
       [ t |-> "K", src |-> <<"K_reshape">> ],
       [ t |-> "KQ", src |-> <<"K", "Q">> ],
       [ t |-> "KQ_scaled", src |-> <<"KQ">> ],
       [ t |-> "KQ_masked", src |-> <<"KQ_scaled">> ],
       [ t |-> "KQ_soft_max", src |-> <<"KQ_masked">> ],
       [ t |-> "V", src |-> <<>> ],
       [ t |-> "KQV", src |-> <<"V", "KQ_soft_max">> ],
       [ t |-> "KQV_merged", src |-> <<"KQV">> ],
       [ t |-> "cur_cpy", src |-> <<"KQV_merged">> ],
       [ t |-> "mul_mat_wo", src |-> <<"cur_cpy">> ],
       [ t |-> "inpFF", src |-> <<"mul_mat_wo", "inpSA">> ],
       [ t |-> "ffn_rms_norm", src |-> <<"inpFF">> ],
       [ t |-> "ffn_repeat", src |-> <<"ffn_rms_norm">> ],
       [ t |-> "ffn_cur", src |-> <<"ffn_repeat", "ffn_rms_norm">> ],
       [ t |-> "tmp", src |-> <<"ffn_cur">> ],
       [ t |-> "mul_mat_w1", src |-> <<"ffn_cur">> ],
       [ t |-> "silu", src |-> <<"mul_mat_w1">> ],
       [ t |-> "mul", src |-> <<"silu", "tmp">> ],
       [ t |-> "mul_mat_w2", src |-> <<"mul">> ],
       [ t |-> "inpL", src |-> <<"mul_mat_w2", "inpFF">> ] >>

\* the tensors created after the loop: the final norm and lm_head
OutputTensors ==
    << [ t |-> "rms_norm", src |-> <<"inpSA">> ],
       [ t |-> "repeat", src |-> <<"rms_norm">> ],
       [ t |-> "embeddings", src |-> <<"repeat", "rms_norm">> ],
       [ t |-> "inpL", src |-> <<"embeddings">> ] >>

\* a tensor of the graph: block -1 is the ggml_get_rows of the token
\* embeddings, blocks 0 .. n_layer - 1 the layers, block n_layer the output
Tensor(il, t) == IF t = "inpSA" THEN [ il |-> il - 1, t |-> "inpL" ] ELSE [ il |-> il, t |-> t ]

\* src0 and src1 of tensor x, leaves left out
SourcesOf(n_layer, x) ==
    LET tensors == IF x.il = n_layer THEN OutputTensors ELSE LayerTensors
        Named(i) == [ j \in 1 .. Len(tensors[i].src) |-> Tensor(x.il, tensors[i].src[j]) ]
    IN  IF x.il = -1 THEN <<>>
        ELSE Named(CHOOSE i \in 1 .. Len(tensors) : tensors[i].t = x.t)

\* ggml_visit_parents(cgraph, node): gf.nodes after the call
RECURSIVE ggml_visit_parents(_, _, _)
ggml_visit_parents(n_layer, nodes, x) ==
    LET Src0(src) == IF Len(src) >= 1 THEN ggml_visit_parents(n_layer, nodes, src[1])
                     ELSE nodes
        Src1(src) == IF Len(src) >= 2 THEN ggml_visit_parents(n_layer, Src0(src), src[2])
                     ELSE Src0(src)
    IN  IF \E i \in 1 .. Len(nodes) : nodes[i] = x THEN nodes
        ELSE Append(Src1(SourcesOf(n_layer, x)), x)

\* faulty variant: the two copies are not put into the graph when they are created
StoreExpandLate(n_layer, nodes, il) == nodes

\* ggml_build_forward_expand(&gf, ggml_cpy(ctx0, Kcur, k)) and
\* ggml_build_forward_expand(&gf, ggml_cpy(ctx0, Vcur, v)) of layer il
StoreExpand(n_layer, nodes, il) ==
    ggml_visit_parents(n_layer, ggml_visit_parents(n_layer, nodes, Tensor(il, "cpy_k")),
                       Tensor(il, "cpy_v"))

\* the value ggml_cpy stores for component e of the key or value of the token
\* at position pos in layer il during the call-th eval: never Junk
Stored(hp, call, il, pos, e) ==
    1 + e + EmbdOf(hp) * (pos + hp.n_ctx * (il + hp.n_layer * (call - 1)))

\* a cache tensor after ggml_cpy through view: element i of the view gets val[i]
CpyInto(cache, es, view, val) ==
    [ a \in 1 .. Len(cache) |->
        IF \E i \in DOMAIN view : view[i] = (a - 1) * es
        THEN val[CHOOSE i \in DOMAIN view : view[i] = (a - 1) * es]
        ELSE cache[a] ]

\* what a node reading through view finds: for each index the element read
\* (no view of an eval with n_past + N <= n_ctx reaches past the tensor; what
\* lies there is shown as Junk)
LoadFrom(cache, es, view) ==
    [ i \in DOMAIN view |->
        IF (view[i] \div es) + 1 \in 1 .. Len(cache) THEN cache[(view[i] \div es) + 1]
        ELSE Junk ]

\* the model shapes tried
CacheShapes ==
    { [ n_layer |-> nl, n_ctx |-> nc, n_head |-> nh, head_dim |-> hd, es |-> es ] :
        nl \in 1 .. MaxCacheLayers, nc \in 2 .. MaxCacheCtx, nh \in 1 .. 2, hd \in 1 .. 2,
        es \in {2, 4} }

InitCache ==
    /\ \E hp \in CacheShapes :
          ev = [ pc |-> "idle", hp |-> hp, call |-> 0, n_past |-> 0, N |-> 0, il |-> 0,
                 nodes |-> <<>>, done |-> 0,
                 k |-> [ a \in 1 .. hp.n_layer * hp.n_ctx * EmbdOf(hp) |-> Junk ],
                 v |-> [ a \in 1 .. hp.n_layer * hp.n_ctx * EmbdOf(hp) |-> Junk ],
                 k0 |-> <<>>, v0 |-> <<>>, stores |-> <<>>, loads |-> <<>> ]
    /\ ctx = [ c \in Sessions |-> NoSession ]
    /\ blob = NoBlob
    /\ ret = Ret("none", "s", 0, FALSE, 0)
    /\ aborted = "none"
    /\ hist = [ phase |-> "graph", evald |-> 0, disciplined |-> TRUE, t_restored |-> FALSE ]
    /\ tk = TkIdle
    /\ ld = LdIdle
    /\ ml = MlIdle

\* llama_eval is called with n_past + N <= n_ctx: gf = {}, embd, inpL
EvalBegin ==
    /\ ev.pc = "idle"
    /\ ev.call < MaxEvals
    /\ \E n_past \in 0 .. ev.hp.n_ctx - 1 :
       \E N \in 1 .. ev.hp.n_ctx - n_past :
          ev' = [ ev EXCEPT !.pc = "layer", !.call = @ + 1, !.n_past = n_past, !.N = N,
                            !.il = 0, !.nodes = <<>>, !.done = 0, !.k0 = ev.k, !.v0 = ev.v,
                            !.loads = <<>> ]
    /\ UNCHANGED <<ctx, blob, ret, aborted, hist, tk, ld, ml>>

\* one pass of the loop over the layers
LayerBuild ==
    /\ ev.pc = "layer"
    /\ ev' = [ ev EXCEPT !.nodes = StoreExpand(ev.hp.n_layer, ev.nodes, ev.il),
                         !.il = @ + 1,
                         !.pc = IF ev.il + 1 < ev.hp.n_layer THEN "layer" ELSE "output" ]
    /\ UNCHANGED <<ctx, blob, ret, aborted, hist, tk, ld, ml>>

\* the final norm, lm_head and ggml_build_forward_expand(&gf, inpL)
OutputBuild ==
    /\ ev.pc = "output"
    /\ ev' = [ ev EXCEPT !.nodes = ggml_visit_parents(ev.hp.n_layer, ev.nodes,
                                                      Tensor(ev.hp.n_layer, "inpL")),
                         !.pc = "compute" ]
    /\ UNCHANGED <<ctx, blob, ret, aborted, hist, tk, ld, ml>>

\* ggml_graph_compute runs the next node of gf.nodes
ComputeNode ==
    /\ ev.pc = "compute"
    /\ ev.done < Len(ev.nodes)
    /\ LET x == ev.nodes[ev.done + 1]
           hp == ev.hp
           kcur == [ i \in (0 .. ev.N * EmbdOf(hp) - 1) \X {0} \X {0} |->
                       Stored(hp, ev.call, x.il, ev.n_past + (i[1] \div EmbdOf(hp)),
                              i[1] % EmbdOf(hp)) ]
           vcur == [ i \in (0 .. ev.N - 1) \X (0 .. EmbdOf(hp) - 1) \X {0} |->
                       Stored(hp, ev.call, x.il, ev.n_past + i[1], i[2]) ]
       IN  ev' = [ ev EXCEPT
                     !.done = @ + 1,
                     !.k = IF x.t = "cpy_k"
                           THEN CpyInto(@, hp.es, KStoreView(hp, x.il, ev.n_past, ev.N), kcur)
                           ELSE @,
                     !.v = IF x.t = "cpy_v"
                           THEN CpyInto(@, hp.es, VStoreView(hp, x.il, ev.n_past, ev.N), vcur)
                           ELSE @,
                     !.stores = IF x.t \in {"cpy_k", "cpy_v"}
                                THEN Append(@, [ call |-> ev.call, il |-> x.il, t |-> x.t ])
                                ELSE @,
                     !.loads = IF x.t = "KQ"
                               THEN Append(@, [ il |-> x.il, t |-> "K",
                                                read |-> LoadFrom(ev.k, hp.es,
                                                    KLoadView(hp, x.il, ev.n_past, ev.N)) ])
                               ELSE IF x.t = "KQV"
                               THEN Append(@, [ il |-> x.il, t |-> "V",
                                                read |-> LoadFrom(ev.v, hp.es,
                                                    VLoadView(hp, x.il, ev.n_past, ev.N)) ])
                               ELSE @ ]
    /\ UNCHANGED <<ctx, blob, ret, aborted, hist, tk, ld, ml>>

\* every node was computed: the results are extracted and llama_eval returns 0
EvalReturn ==
    /\ ev.pc = "compute"
    /\ ev.done = Len(ev.nodes)
    /\ ev' = [ ev EXCEPT !.pc = "idle" ]
    /\ UNCHANGED <<ctx, blob, ret, aborted, hist, tk, ld, ml>>

NextCache ==
    \/ EvalBegin
    \/ LayerBuild
    \/ OutputBuild
    \/ ComputeNode
    \/ EvalReturn

SpecCache == InitCache /\ [][NextCache]_vars

(***************************************************************************)
(* Claims about the cache views and the graph, checked under SpecCache.    *)
(***************************************************************************)

\* the elements (0-based) of layer l's part of a cache tensor
LayerRegion(hp, l) ==
    l * hp.n_ctx * EmbdOf(hp) .. (l + 1) * hp.n_ctx * EmbdOf(hp) - 1

\* the K elements C21 names for layer l
KElements(hp, l, p, N) ==
    (l * hp.n_ctx + p) * EmbdOf(hp) .. (l * hp.n_ctx + p + N) * EmbdOf(hp) - 1

\* the V elements C21 names for layer l
VElements(hp, l, p, N) ==
    { l * hp.n_ctx * EmbdOf(hp) + e * hp.n_ctx + t :
        e \in 0 .. EmbdOf(hp) - 1, t \in p .. p + N - 1 }

\* C21: an eval with n_past = p and N tokens, p + N <= n_ctx, writes in each
\* layer l exactly the K elements [(l*n_ctx + p)*n_embd, (l*n_ctx + p + N)*n_embd)
\* and the V elements l*n_ctx*n_embd + e*n_ctx + t for e in [0, n_embd) and t
\* in [p, p + N); they lie inside layer l's region of the buffers of
\* n_layer*n_ctx*n_embd elements, and every other cache element, in
\* particular every element of the positions [0, p) of every layer, is as it
\* was before the eval.
C21_EvalWritesItsPositions ==
    (ev.pc = "idle" /\ ev.call > 0) =>
        LET hp == ev.hp
            p == ev.n_past
            n == EmbdOf(hp)
            Layers == 0 .. hp.n_layer - 1
        IN  /\ Len(ev.k) = hp.n_layer * hp.n_ctx * n /\ Len(ev.v) = Len(ev.k)
            /\ \A l \in Layers :
                  /\ KElements(hp, l, p, ev.N) \subseteq LayerRegion(hp, l)
                  /\ VElements(hp, l, p, ev.N) \subseteq LayerRegion(hp, l)
                  /\ \A a \in KElements(hp, l, p, ev.N) :
                        ev.k[a + 1] = Stored(hp, ev.call, l, (a \div n) - l * hp.n_ctx, a % n)
                  /\ \A e \in 0 .. n - 1, t \in p .. p + ev.N - 1 :
                        ev.v[l * hp.n_ctx * n + e * hp.n_ctx + t + 1]
                        = Stored(hp, ev.call, l, t, e)
                  /\ \A t \in 0 .. p - 1, e \in 0 .. n - 1 :
                        /\ ev.k[(l * hp.n_ctx + t) * n + e + 1]
                           = ev.k0[(l * hp.n_ctx + t) * n + e + 1]
                        /\ ev.v[l * hp.n_ctx * n + e * hp.n_ctx + t + 1]
                           = ev.v0[l * hp.n_ctx * n + e * hp.n_ctx + t + 1]
            /\ \A a \in 0 .. Len(ev.k) - 1 :
                  /\ (\A l \in Layers : a \notin KElements(hp, l, p, ev.N)) =>
                        ev.k[a + 1] = ev.k0[a + 1]
                  /\ (\A l \in Layers : a \notin VElements(hp, l, p, ev.N)) =>
                        ev.v[a + 1] = ev.v0[a + 1]

\* C21's case: a second eval of several tokens on a model of two layers and
\* two heads of two components appended to positions an earlier eval filled.
C21_Witness ==
    /\ ev.pc = "idle" /\ ev.call = 2
    /\ ev.n_past = 1 /\ ev.N = 2
    /\ ev.hp.n_layer = 2 /\ ev.hp.n_head = 2 /\ ev.hp.head_dim = 2
    /\ ev.k0[1] # Junk /\ ev.v0[1] # Junk
    /\ ev.k[1] = ev.k0[1]

\* C22: the V read view addresses what the V write view stored: for every
\* layer l, position t < p + N, head h and d < head_dim the element the read
\* view gives at index (t, d, h) is element l*n_ctx*n_embd + e*n_ctx + t of
\* the buffer, e = h*head_dim + d, which is where the write view for position
\* t stored component e; the node that reads V finds there the value stored
\* for (l, t, e).
C22_VReadMatchesVWrite ==
    \A r \in 1 .. Len(ev.loads) :
        ev.loads[r].t = "V" =>
            LET hp == ev.hp
                l == ev.loads[r].il
                p == ev.n_past
                load == VLoadView(hp, l, p, ev.N)
                store == VStoreView(hp, l, p, ev.N)
            IN  /\ DOMAIN load = (0 .. p + ev.N - 1) \X (0 .. hp.head_dim - 1)
                                 \X (0 .. hp.n_head - 1)
                /\ \A i \in DOMAIN load :
                      LET e == i[3] * hp.head_dim + i[2]
                          a == l * hp.n_ctx * EmbdOf(hp) + e * hp.n_ctx + i[1]
                      IN  /\ load[i] = a * hp.es
                          /\ i[1] >= p => /\ store[<<i[1] - p, e, 0>>] = load[i]
                                          /\ ev.loads[r].read[i]
                                             = Stored(hp, ev.call, l, i[1], e)
                          /\ i[1] < p => ev.loads[r].read[i] = ev.v0[a + 1]

\* C22's case: the second layer's V was read over a past position and two new
\* ones, with two heads of two components.
C22_Witness ==
    /\ \E r \in 1 .. Len(ev.loads) : ev.loads[r].t = "V" /\ ev.loads[r].il = 1
    /\ ev.hp.n_head = 2 /\ ev.hp.head_dim = 2
    /\ ev.n_past = 1 /\ ev.N = 2 /\ ev.call = 2
    /\ ev.v0[1] # Junk

\* the nodes of layer l that read kv_self.k or kv_self.v through K and V
CacheReaders == {"K_view", "K_reshape", "K", "KQ", "V", "KQV"}

\* C23: in the graph one eval executes, the copies of the new keys and values
\* of layer l into the cache come before every node of layer l that reads the
\* cache views over the positions [0, p + N), for every layer, so the nodes
\* that read K and V find the entries of the current tokens written by this
\* eval; across evals the cache writes occur in call order.
C23_StoresPrecedeLoads ==
    /\ ev.pc = "compute" =>
          \A l \in 0 .. ev.hp.n_layer - 1 :
              /\ \A c \in {"cpy_k", "cpy_v"} :
                    \E j \in 1 .. Len(ev.nodes) : ev.nodes[j] = Tensor(l, c)
              /\ \A i, j \in 1 .. Len(ev.nodes) :
                    (ev.nodes[i].il = l /\ ev.nodes[i].t \in CacheReaders
                     /\ ev.nodes[j].il = l /\ ev.nodes[j].t \in {"cpy_k", "cpy_v"}) => j < i
    /\ \A r \in 1 .. Len(ev.loads) :
          \A i \in DOMAIN ev.loads[r].read :
              LET n == EmbdOf(ev.hp)
                  l == ev.loads[r].il
              IN  IF ev.loads[r].t = "K"
                  THEN (i[1] \div n) >= ev.n_past =>
                          ev.loads[r].read[i]
                          = Stored(ev.hp, ev.call, l, i[1] \div n, i[1] % n)
                  ELSE i[1] >= ev.n_past =>
                          ev.loads[r].read[i]
                          = Stored(ev.hp, ev.call, l, i[1], i[3] * ev.hp.head_dim + i[2])
    /\ \A i, j \in 1 .. Len(ev.stores) : i < j => ev.stores[i].call <= ev.stores[j].call
    /\ ev.pc = "idle" =>
          /\ Len(ev.stores) = 2 * ev.hp.n_layer * ev.call
          /\ Len(ev.loads) = IF ev.call = 0 THEN 0 ELSE 2 * ev.hp.n_layer

\* C23's case: the second eval on a session ran the graph of two layers to the
\* end, reading keys and values of a past position and of new ones.
C23_Witness ==
    /\ ev.pc = "idle" /\ ev.call = 2 /\ ev.hp.n_layer = 2
    /\ ev.n_past = 1 /\ ev.N = 2
    /\ \E r \in 1 .. Len(ev.loads) : ev.loads[r].t = "K" /\ ev.loads[r].il = 1
    /\ Len(ev.stores) = 8
====
